---- MODULE Spec2Model ----
(***************************************************************************)
(* Model of the vscode-debug-bridge client (create_vscode_extension_client)*)
(* : the command broker (send_command, connect, handle_message, the socket *)
(* handlers) and the event dispatcher (emit_event, on/off, wait_for_event).*)
(*                                                                         *)
(* The WebSocket objects are modelled by their readyState and by the       *)
(* events the runtime still has to dispatch on them.  Every handler of the *)
(* client runs to completion (single-threaded event loop), so every        *)
(* handler is one action.  The continuation of `await connect()` is a      *)
(* separate action: it runs in a later microtask.                          *)
(***************************************************************************)
EXTENDS Integers, Sequences, FiniteSets, TLC

\* ------------------------------------------------------------------ bounds
MaxCalls == 2        \* send_command invocations per behaviour
MaxSockets == 2      \* WebSocket objects created per behaviour

MaxWaits == 2        \* wait_for_event invocations per behaviour
MaxWaitEvents == 2   \* length of the event list passed to wait_for_event
MaxSubs == 2         \* subscriptions made with on / on_namespace at one time

Calls == 1..MaxCalls
Sockets == 1..MaxSockets
Waits == 1..MaxWaits

\* inputs of send_command: (command, timeout); 10000 is the default timeout
ArgSet == { [command |-> "status", timeout |-> 10000],
            [command |-> "control", timeout |-> 50] }
\* payloads of a response frame; "" stands for a null/absent error text
DataSet == {"d1", "d2"}
ErrorSet == {"", "no active debug session"}

VARIABLES
    ws,                 \* the socket the client currently refers to, 0 = null
    connected,
    connecting,
    command_id_counter,
    pending_commands,   \* id -> the call whose resolve/reject closures it holds
    readyState,         \* per socket: NONE, CONNECTING, OPEN, CLOSING, CLOSED
    errorQueued,        \* per socket: an error event precedes its close event
    connectPromise,     \* per socket: the promise connect() returned for it
    url_ok,             \* whether new WebSocket(url) accepts the url
    call,               \* per send_command invocation: its promise and timer
    event_listeners,    \* event name -> array of callbacks
    ns_event_listeners, \* namespace -> array of callbacks
    wait,               \* per wait_for_event invocation: its promise and timer
    escaped,            \* an exception left the last emit_event
    sessions,           \* debug host: the debug sessions that are running
    activeDebugSession, \* debug host: vscode.debug.activeDebugSession
    host,               \* debug host: where the active session's thread is stopped
    current_session,    \* extension: the session the bridge follows
    debug_state,        \* extension: the committed debug state
    breakpoints,        \* debug host: vscode.debug.breakpoints (the registry)
    clients,            \* extension: the set of connected client sockets
    client_state,       \* per client socket: readyState
    req,                \* per handle_command invocation: where it awaits
    item,               \* per stack-item notification: where it awaits
    capability_check,   \* per capability timer: armed / awaiting the host
    outbox              \* the frames the last step handed to client.send

brokerVars == <<ws, connected, connecting, command_id_counter, pending_commands,
                readyState, errorQueued, connectPromise, url_ok, call>>

eventVars == <<event_listeners, ns_event_listeners, wait, escaped>>

hostVars == <<sessions, activeDebugSession, host>>

serverVars == <<hostVars, current_session, debug_state, breakpoints, clients,
                client_state, req, item, capability_check, outbox>>

clientVars == <<brokerVars, eventVars>>

vars == <<clientVars, serverVars>>

\* ---------------------------------------------------------- promise values
NoError == [text |-> "", command |-> "", timeout |-> 0]
NoOutcome == [state |-> "none", via |-> "none", data |-> "", error |-> NoError]

Resolved(via, data) ==
    [state |-> "resolved", via |-> via, data |-> data, error |-> NoError]
Rejected(via, err) ==
    [state |-> "rejected", via |-> via, data |-> "", error |-> err]

ConnectionClosedError == [text |-> "Connection closed", command |-> "", timeout |-> 0]
SendFailedError == [text |-> "Failed to send command", command |-> "", timeout |-> 0]
ConnectFailedError == [text |-> "Failed to connect to WebSocket", command |-> "", timeout |-> 0]
TimeoutError(args) ==
    [text |-> "timed out", command |-> args.command, timeout |-> args.timeout]
\* new Error(message.error || 'Command failed')
ResponseError(error) ==
    [text |-> IF error = "" THEN "Command failed" ELSE error,
     command |-> "", timeout |-> 0]

IdleCall == [pc |-> "idle", args |-> [command |-> "", timeout |-> 0], id |-> 0,
             awaits |-> 0, timer |-> "none", outcome |-> NoOutcome, settles |-> 0]

\* resolve()/reject() of a promise: the first call settles it, later calls
\* are counted and otherwise ignored
Settle(rec, outcome) ==
    IF rec.settles = 0
    THEN [rec EXCEPT !.pc = "settled", !.outcome = outcome, !.settles = 1]
    ELSE [rec EXCEPT !.settles = 2]

clearTimeout(rec) ==
    [rec EXCEPT !.timer = IF @ = "armed" THEN "cleared" ELSE @]

\* variant of pending_resolve: the resolve closure without clearTimeout
pending_resolve_keep_timer(rec, data) == Settle(rec, Resolved("response", data))

\* the resolve / reject closures stored in a pending_commands entry
pending_resolve(rec, data) == Settle(clearTimeout(rec), Resolved("response", data))
pending_reject(rec, via, err) == Settle(clearTimeout(rec), Rejected(via, err))

MapDelete(m, k) == [x \in (DOMAIN m) \ {k} |-> m[x]]
MapSet(m, k, v) == [x \in (DOMAIN m) \cup {k} |-> IF x = k THEN v ELSE m[x]]
EmptyMap == [x \in {} |-> 0]

\* variant of generate_command_id: the counter read without the increment
generate_command_id_no_increment(counter) == IF counter = 0 THEN 1 ELSE counter

\* `cmd_${++command_id_counter}_${Date.now()}`: the id is represented by its
\* counter part; the text is the same for two ids only if the numeral between
\* its first two underscores is, whatever the clock reads
generate_command_id(counter) == counter + 1

\* ws.send(frame): throws when ws is null (TypeError) or the socket is still
\* CONNECTING (InvalidStateError); on a closing or closed socket the frame
\* is silently discarded
SendThrows == ws = 0 \/ readyState[ws] = "CONNECTING"


\* --------------------------------------------------------------- connect()
NoSocket == 0
FreeSockets == {s \in Sockets : readyState[s] = "NONE"}
NextSocket == CHOOSE s \in FreeSockets : \A t \in FreeSockets : s <= t

\* what the promise returned by connect() is tied to: 0 is Promise.resolve(),
\* -1 a promise rejected because the WebSocket constructor threw, s > 0 the
\* promise settled by the handlers of socket s
AlreadyResolved == 0
CtorRejected == -1

ConnectResult ==
    IF connecting \/ connected THEN AlreadyResolved
    ELSE IF ~url_ok THEN CtorRejected
    ELSE NextSocket

\* the state changes of one connect() call
connect ==
    IF connecting \/ connected
    THEN UNCHANGED <<ws, connecting, readyState, errorQueued, connectPromise>>
    ELSE IF ~url_ok
    THEN /\ connecting' = FALSE
         /\ UNCHANGED <<ws, readyState, errorQueued, connectPromise>>
    ELSE /\ FreeSockets # {}
         /\ connecting' = TRUE
         /\ ws' = NextSocket
         /\ readyState' = [readyState EXCEPT ![NextSocket] = "CONNECTING"]
         /\ errorQueued' = [errorQueued EXCEPT ![NextSocket] = TRUE]
         /\ connectPromise' = [connectPromise EXCEPT ![NextSocket] = "pending"]

\* client.connect(): the public wrapper, called by the bridge at start-up
client_connect ==
    /\ connect
    /\ UNCHANGED <<connected, command_id_counter, pending_commands, url_ok, call>>
    /\ UNCHANGED <<eventVars, serverVars>>

\* variant of executor: the catch block without pending_commands.delete(id)
executor_keep_entry(c, args) ==
    LET id == generate_command_id(command_id_counter)
        rec == [call[c] EXCEPT !.pc = "pending", !.args = args, !.id = id,
                               !.timer = "armed"]
    IN  /\ command_id_counter' = id
        /\ IF SendThrows
           THEN /\ call' = [call EXCEPT ![c] =
                        Settle(clearTimeout(rec), Rejected("send", SendFailedError))]
                /\ pending_commands' = MapSet(pending_commands, id, c)
           ELSE /\ call' = [call EXCEPT ![c] = rec]
                /\ pending_commands' = MapSet(pending_commands, id, c)

\* ----------------------------------------------------------- send_command
\* the executor of the promise send_command returns: register the entry,
\* arm the timer, transmit; a throwing send is undone in the catch block
executor(c, args) ==
    LET id == generate_command_id(command_id_counter)
        rec == [call[c] EXCEPT !.pc = "pending", !.args = args, !.id = id,
                               !.timer = "armed"]
    IN  /\ command_id_counter' = id
        /\ IF SendThrows
           THEN /\ call' = [call EXCEPT ![c] =
                        Settle(clearTimeout(rec), Rejected("send", SendFailedError))]
                /\ pending_commands' = MapDelete(MapSet(pending_commands, id, c), id)
           ELSE /\ call' = [call EXCEPT ![c] = rec]
                /\ pending_commands' = MapSet(pending_commands, id, c)

\* send_command(command, data, timeout) up to its first suspension point
send_command(c, args) ==
    /\ call[c].pc = "idle"
    /\ \A d \in Calls : d < c => call[d].pc # "idle"
    /\ IF connected
       THEN /\ executor(c, args)
            /\ UNCHANGED <<ws, connected, connecting, readyState, errorQueued,
                           connectPromise, url_ok>>
       ELSE /\ connect
            /\ call' = [call EXCEPT ![c] = [@ EXCEPT !.pc = "awaiting",
                                             !.args = args, !.awaits = ConnectResult]]
            /\ UNCHANGED <<connected, command_id_counter, pending_commands, url_ok>>
    /\ UNCHANGED <<eventVars, serverVars>>


\* the continuation of `await connect()` once the awaited promise resolved
send_command_resume(c) ==
    /\ call[c].pc = "awaiting"
    /\ \/ call[c].awaits = AlreadyResolved
       \/ call[c].awaits \in Sockets /\ connectPromise[call[c].awaits] = "resolved"
    /\ executor(c, call[c].args)
    /\ UNCHANGED <<ws, connected, connecting, readyState, errorQueued,
                   connectPromise, url_ok>>
    /\ UNCHANGED <<eventVars, serverVars>>

\* `await connect()` throws when the awaited promise was rejected: the async
\* function's promise rejects and the executor never runs
send_command_connect_failed(c) ==
    /\ call[c].pc = "awaiting"
    /\ \/ call[c].awaits = CtorRejected
       \/ call[c].awaits \in Sockets /\ connectPromise[call[c].awaits] = "rejected"
    /\ call' = [call EXCEPT ![c] = Settle(@, Rejected("connect", ConnectFailedError))]
    /\ UNCHANGED <<ws, connected, connecting, command_id_counter, pending_commands,
                   readyState, errorQueued, connectPromise, url_ok>>
    /\ UNCHANGED <<eventVars, serverVars>>

\* variant of timeout_fire: the callback without pending_commands.delete(id)
timeout_fire_keep_entry(c) ==
    /\ call[c].timer = "armed"
    /\ pending_commands' = pending_commands
    /\ call' = [call EXCEPT ![c] =
                  Settle([@ EXCEPT !.timer = "fired"],
                         Rejected("timeout", TimeoutError(@.args)))]
    /\ UNCHANGED <<ws, connected, connecting, command_id_counter,
                   readyState, errorQueued, connectPromise, url_ok>>
    /\ UNCHANGED <<eventVars, serverVars>>

\* the setTimeout callback of send_command
timeout_fire(c) ==
    /\ call[c].timer = "armed"
    /\ pending_commands' = MapDelete(pending_commands, call[c].id)
    /\ call' = [call EXCEPT ![c] =
                  Settle([@ EXCEPT !.timer = "fired"],
                         Rejected("timeout", TimeoutError(@.args)))]
    /\ UNCHANGED <<ws, connected, connecting, command_id_counter,
                   readyState, errorQueued, connectPromise, url_ok>>
    /\ UNCHANGED <<eventVars, serverVars>>

\* ------------------------------------------------------- socket handlers
ws_onopen(s) ==
    /\ readyState[s] = "CONNECTING"
    /\ readyState' = [readyState EXCEPT ![s] = "OPEN"]
    /\ errorQueued' = [errorQueued EXCEPT ![s] = FALSE]
    /\ connected' = TRUE
    /\ connecting' = FALSE
    /\ connectPromise' = [connectPromise EXCEPT ![s] =
                            IF @ = "pending" THEN "resolved" ELSE @]
    /\ UNCHANGED <<ws, command_id_counter, pending_commands, url_ok, call>>
    /\ UNCHANGED <<eventVars, serverVars>>

\* the error event: the connection attempt failed (CONNECTING), the open
\* connection broke (OPEN), or close() was called before the socket opened
ws_onerror(s) ==
    /\ \/ readyState[s] \in {"CONNECTING", "OPEN"}
       \/ readyState[s] = "CLOSING" /\ errorQueued[s]
    /\ readyState' = [readyState EXCEPT ![s] = "CLOSING"]
    /\ errorQueued' = [errorQueued EXCEPT ![s] = FALSE]
    /\ connecting' = FALSE
    /\ connectPromise' = [connectPromise EXCEPT ![s] =
                            IF ~connected /\ @ = "pending" THEN "rejected" ELSE @]
    /\ UNCHANGED <<ws, connected, command_id_counter, pending_commands, url_ok, call>>
    /\ UNCHANGED <<eventVars, serverVars>>

\* variant of ws_onclose: the handler without pending_commands.clear()
ws_onclose_no_clear(s) ==
    /\ readyState[s] \in {"OPEN", "CLOSING"}
    /\ ~errorQueued[s]
    /\ readyState' = [readyState EXCEPT ![s] = "CLOSED"]
    /\ connected' = FALSE
    /\ connecting' = FALSE
    /\ call' = [c \in Calls |->
                  IF \E id \in DOMAIN pending_commands : pending_commands[id] = c
                  THEN pending_reject(call[c], "close", ConnectionClosedError)
                  ELSE call[c]]
    /\ pending_commands' = pending_commands
    /\ UNCHANGED <<ws, command_id_counter, errorQueued, connectPromise, url_ok>>
    /\ UNCHANGED <<eventVars, serverVars>>

\* the close event: every entry of pending_commands is rejected, then the
\* map is cleared
ws_onclose(s) ==
    /\ readyState[s] \in {"OPEN", "CLOSING"}
    /\ ~errorQueued[s]
    /\ readyState' = [readyState EXCEPT ![s] = "CLOSED"]
    /\ connected' = FALSE
    /\ connecting' = FALSE
    /\ call' = [c \in Calls |->
                  IF \E id \in DOMAIN pending_commands : pending_commands[id] = c
                  THEN pending_reject(call[c], "close", ConnectionClosedError)
                  ELSE call[c]]
    /\ pending_commands' = EmptyMap
    /\ UNCHANGED <<ws, command_id_counter, errorQueued, connectPromise, url_ok>>
    /\ UNCHANGED <<eventVars, serverVars>>

\* ------------------------------------------------------- event dispatcher
\* An event name is the sequence of its ':'-separated segments, so that
\* event.split(':') is the sequence itself.
EventNames == { <<"stopped">>, <<"dap", "stopped">> }
Namespaces == { "dap", "stopped" }
EventData == { "d1" }

\* callbacks are <<kind, a, b>>: a user callback <<"cb", n, t>> throws when
\* t = 1; <<"wait", w, i>> is the handler wait_for_event call w created for
\* the i-th name of its list
NullCallback == <<"null", 0, 0>>
UserCallbacks == { <<"cb", 1, 0>>, <<"cb", 2, 1>> }
Throws(cb) == cb[1] = "cb" /\ cb[3] = 1
IsWaitHandler(cb) == cb[1] = "wait"

NoWaitOutcome == [state |-> "none", event |-> <<>>, data |-> ""]
IdleWait == [pc |-> "idle", events |-> <<>>, timer |-> "none",
             outcome |-> NoWaitOutcome, settles |-> 0]

\* Array.prototype.indexOf, 0 standing for -1
IndexOf(arr, cb) ==
    IF \E i \in 1..Len(arr) : arr[i] = cb
    THEN CHOOSE i \in 1..Len(arr) : arr[i] = cb /\ \A j \in 1..(i - 1) : arr[j] # cb
    ELSE 0

\* arr.splice(index, 1)
Splice(arr, index) == SubSeq(arr, 1, index - 1) \o SubSeq(arr, index + 1, Len(arr))

\* client.on(event, callback) on the listener map
on(listeners, event, callback) ==
    IF event \in DOMAIN listeners
    THEN [listeners EXCEPT ![event] = Append(@, callback)]
    ELSE MapSet(listeners, event, <<callback>>)

\* client.off(event, callback) on the listener map
off(listeners, event, callback) ==
    IF event \notin DOMAIN listeners THEN listeners
    ELSE IF callback = NullCallback THEN MapDelete(listeners, event)
    ELSE LET index == IndexOf(listeners[event], callback)
         IN  IF index = 0 THEN listeners
             ELSE LET rest == Splice(listeners[event], index)
                  IN  IF Len(rest) = 0 THEN MapDelete(listeners, event)
                      ELSE [listeners EXCEPT ![event] = rest]

\* client.on_namespace(namespace, callback) on the namespace map
on_namespace(listeners, namespace, callback) ==
    IF namespace \in DOMAIN listeners
    THEN [listeners EXCEPT ![namespace] = Append(@, callback)]
    ELSE MapSet(listeners, namespace, <<callback>>)

\* client.off_namespace(namespace, callback) on the namespace map
off_namespace(listeners, namespace, callback) ==
    IF namespace \notin DOMAIN listeners THEN listeners
    ELSE IF callback = NullCallback THEN MapDelete(listeners, namespace)
    ELSE LET index == IndexOf(listeners[namespace], callback)
         IN  IF index = 0 THEN listeners
             ELSE LET rest == Splice(listeners[namespace], index)
                  IN  IF Len(rest) = 0 THEN MapDelete(listeners, namespace)
                      ELSE [listeners EXCEPT ![namespace] = rest]

\* event_handlers.get(event) of wait_for_event call w: the Map keeps the
\* handler set last for a name
event_handlers_get(w, events, event) ==
    <<"wait", w, CHOOSE i \in 1..Len(events) :
                    events[i] = event /\ \A j \in (i + 1)..Len(events) : events[j] # event>>

\* events.forEach(e => client.off(e, event_handlers.get(e))), from index k
RECURSIVE off_each(_, _, _, _)
off_each(listeners, w, events, k) ==
    IF k > Len(events) THEN listeners
    ELSE off_each(off(listeners, events[k], event_handlers_get(w, events, events[k])),
                  w, events, k + 1)

\* resolve / reject of the promise wait_for_event returned
SettleWait(rec, outcome) ==
    IF rec.settles = 0
    THEN [rec EXCEPT !.pc = "settled", !.outcome = outcome, !.settles = 1]
    ELSE [rec EXCEPT !.settles = 2]

\* the handler wait_for_event registers for events[i]
wait_handler(st, w, i, data) ==
    LET rec == st.wait[w]
    IN  [st EXCEPT
           !.el = off_each(st.el, w, rec.events, 1),
           !.wait = [st.wait EXCEPT ![w] =
                        SettleWait(clearTimeout(rec),
                                   [state |-> "resolved", event |-> rec.events[i],
                                    data |-> data])]]

\* variant of call_listener: the callback invoked without try / catch
call_listener_no_catch(st, cb, name, data) ==
    LET logged == [st EXCEPT !.log = Append(@, [cb |-> cb, name |-> name, data |-> data])]
        after == IF IsWaitHandler(cb) THEN wait_handler(logged, cb[2], cb[3], data)
                 ELSE logged
    IN  IF Throws(cb) THEN [after EXCEPT !.escaped = TRUE] ELSE after

\* callback(...) inside the try / catch of emit_event; name is "" for an
\* exact-name listener (called with data only).  The catch only warns.
call_listener(st, cb, name, data) ==
    LET logged == [st EXCEPT !.log = Append(@, [cb |-> cb, name |-> name, data |-> data])]
        after == IF IsWaitHandler(cb) THEN wait_handler(logged, cb[2], cb[3], data)
                 ELSE logged
    IN  IF Throws(cb) THEN [after EXCEPT !.escaped = FALSE] ELSE after

\* for (const callback of listeners): the array iterator reads the live
\* array by index; an array emptied by off() has left the map
RECURSIVE exact_loop(_, _, _, _)
exact_loop(st, event, data, i) ==
    LET listeners == IF event \in DOMAIN st.el THEN st.el[event] ELSE <<>>
    IN  IF st.escaped \/ i > Len(listeners) THEN st
        ELSE exact_loop(call_listener(st, listeners[i], "", data), event, data, i + 1)

\* const [event_ns, event_name] = event.split(':')
event_ns(event) == event[1]
event_name(event) == IF Len(event) >= 2 THEN event[2] ELSE "undefined"

RECURSIVE ns_loop(_, _, _, _)
ns_loop(st, event, data, i) ==
    LET ns_listeners == IF event_ns(event) \in DOMAIN st.nl
                        THEN st.nl[event_ns(event)] ELSE <<>>
    IN  IF st.escaped \/ i > Len(ns_listeners) THEN st
        ELSE ns_loop(call_listener(st, ns_listeners[i], event_name(event), data),
                     event, data, i + 1)

\* emit_event(event, data) applied to the dispatcher state st
emit_result(st, event, data) ==
    ns_loop(exact_loop(st, event, data, 1), event, data, 1)

\* the dispatcher state emit_event starts from; log collects the callback
\* invocations of the emission in order
Dispatcher ==
    [el |-> event_listeners, nl |-> ns_event_listeners, wait |-> wait,
     log |-> <<>>, escaped |-> FALSE]

emit_event(event, data) ==
    LET st == emit_result(Dispatcher, event, data)
    IN  /\ event_listeners' = st.el
        /\ ns_event_listeners' = st.nl
        /\ wait' = st.wait
        /\ escaped' = st.escaped

\* variant of handle_response: without pending_commands.delete(message.id)
handle_response_keep_entry(message) ==
    IF message.id # 0 /\ message.id \in DOMAIN pending_commands
    THEN LET c == pending_commands[message.id]
         IN  /\ pending_commands' = pending_commands
             /\ call' = [call EXCEPT ![c] =
                           IF message.success
                           THEN pending_resolve(@, message.data)
                           ELSE pending_reject(@, "response",
                                               ResponseError(message.error))]
    ELSE UNCHANGED <<pending_commands, call>>

\* the response branch of handle_message
handle_response(message) ==
    IF message.id # 0 /\ message.id \in DOMAIN pending_commands
    THEN LET c == pending_commands[message.id]
         IN  /\ pending_commands' = MapDelete(pending_commands, message.id)
             /\ call' = [call EXCEPT ![c] =
                           IF message.success
                           THEN pending_resolve(@, message.data)
                           ELSE pending_reject(@, "response",
                                               ResponseError(message.error))]
    ELSE UNCHANGED <<pending_commands, call>>

handle_message(message) ==
    /\ IF message.type = "event"
       THEN /\ emit_event(message.event, message.data)
            /\ UNCHANGED <<pending_commands, call>>
       ELSE /\ handle_response(message)
            /\ UNCHANGED <<event_listeners, ns_event_listeners, wait, escaped>>
    /\ UNCHANGED <<ws, connected, connecting, command_id_counter,
                   readyState, errorQueued, connectPromise, url_ok>>
    /\ UNCHANGED serverVars

\* frames are delivered while the socket is open, and still while it closes
ws_onmessage(s, message) ==
    /\ readyState[s] \in {"OPEN", "CLOSING"}
    /\ ~errorQueued[s]
    /\ handle_message(message)

disconnect_clears_listeners ==
    /\ IF ws # NoSocket
       THEN /\ readyState' = [readyState EXCEPT ![ws] =
                                IF @ \in {"CONNECTING", "OPEN"} THEN "CLOSING" ELSE @]
            /\ ws' = NoSocket
       ELSE UNCHANGED <<ws, readyState>>
    /\ connected' = FALSE
    /\ connecting' = FALSE
    /\ event_listeners' = EmptyMap
    /\ ns_event_listeners' = EmptyMap
    /\ UNCHANGED <<command_id_counter, pending_commands, errorQueued,
                   connectPromise, url_ok, call>>
    /\ UNCHANGED <<wait, escaped, serverVars>>

\* client.disconnect()
disconnect ==
    /\ IF ws # NoSocket
       THEN /\ readyState' = [readyState EXCEPT ![ws] =
                                IF @ \in {"CONNECTING", "OPEN"} THEN "CLOSING" ELSE @]
            /\ ws' = NoSocket
       ELSE UNCHANGED <<ws, readyState>>
    /\ connected' = FALSE
    /\ connecting' = FALSE
    /\ UNCHANGED <<command_id_counter, pending_commands, errorQueued,
                   connectPromise, url_ok, call>>
    /\ UNCHANGED <<eventVars, serverVars>>

\* ------------------------------------------------- dispatcher operations
UserSubs(listeners) ==
    LET RECURSIVE Count(_)
        Count(keys) ==
            IF keys = {} THEN 0
            ELSE LET k == CHOOSE x \in keys : TRUE
                 IN  Cardinality({i \in 1..Len(listeners[k]) :
                                     ~IsWaitHandler(listeners[k][i])})
                     + Count(keys \ {k})
    IN  Count(DOMAIN listeners)

\* client.on(event, callback)
client_on(event, callback) ==
    /\ UserSubs(event_listeners) + UserSubs(ns_event_listeners) < MaxSubs
    /\ event_listeners' = on(event_listeners, event, callback)
    /\ UNCHANGED <<ns_event_listeners, wait, escaped>>
    /\ UNCHANGED <<brokerVars, serverVars>>

\* client.off(event, callback = null)
client_off(event, callback) ==
    /\ event_listeners' = off(event_listeners, event, callback)
    /\ UNCHANGED <<ns_event_listeners, wait, escaped>>
    /\ UNCHANGED <<brokerVars, serverVars>>

\* client.on_namespace(namespace, callback)
client_on_namespace(namespace, callback) ==
    /\ UserSubs(event_listeners) + UserSubs(ns_event_listeners) < MaxSubs
    /\ ns_event_listeners' = on_namespace(ns_event_listeners, namespace, callback)
    /\ UNCHANGED <<event_listeners, wait, escaped>>
    /\ UNCHANGED <<brokerVars, serverVars>>

\* client.off_namespace(namespace, callback = null)
client_off_namespace(namespace, callback) ==
    /\ ns_event_listeners' = off_namespace(ns_event_listeners, namespace, callback)
    /\ UNCHANGED <<event_listeners, wait, escaped>>
    /\ UNCHANGED <<brokerVars, serverVars>>

\* events.forEach(event => { ...; client.on(event, handler) }), from index k
RECURSIVE on_each(_, _, _, _)
on_each(listeners, w, events, k) ==
    IF k > Len(events) THEN listeners
    ELSE on_each(on(listeners, events[k], <<"wait", w, k>>), w, events, k + 1)

\* client.wait_for_event(events, timeout)
wait_for_event(w, events) ==
    /\ wait[w].pc = "idle"
    /\ \A v \in Waits : v < w => wait[v].pc # "idle"
    /\ wait' = [wait EXCEPT ![w] = [@ EXCEPT !.pc = "pending", !.events = events,
                                             !.timer = "armed"]]
    /\ event_listeners' = on_each(event_listeners, w, events, 1)
    /\ UNCHANGED <<ns_event_listeners, escaped>>
    /\ UNCHANGED <<brokerVars, serverVars>>

\* the setTimeout callback of wait_for_event
wait_timeout(w) ==
    /\ wait[w].timer = "armed"
    /\ event_listeners' = off_each(event_listeners, w, wait[w].events, 1)
    /\ wait' = [wait EXCEPT ![w] =
                  SettleWait([@ EXCEPT !.timer = "fired"],
                             [state |-> "rejected", event |-> <<>>, data |-> ""])]
    /\ UNCHANGED <<ns_event_listeners, escaped>>
    /\ UNCHANGED <<brokerVars, serverVars>>

\* ------------------------------------------------------------ the frames
\* response frames the server may send: the ids issued so far
Responses ==
    [type : {"response"}, id : 1..command_id_counter, success : BOOLEAN,
     data : DataSet, error : ErrorSet]

\* event frames the server may broadcast
EventFrames == [type : {"event"}, event : EventNames, data : EventData]

\* the lists of names a caller may pass to wait_for_event
RECURSIVE SeqsUpTo(_, _)
SeqsUpTo(S, n) ==
    IF n = 0 THEN { <<>> }
    ELSE LET shorter == SeqsUpTo(S, n - 1)
         IN  shorter \cup { Append(q, x) : q \in {r \in shorter : Len(r) = n - 1}, x \in S }
WaitLists == SeqsUpTo(EventNames, MaxWaitEvents) \ { <<>> }

\* ------------------------------------------------- the bridge (extension.js)
MaxSessions == 2
MaxClients == 1
MaxReqs == 1
MaxItems == 1
MaxChecks == 1
MaxBreakpoints == 2

Sessions == 1..MaxSessions
Clients == 1..MaxClients
Reqs == 1..MaxReqs
Items == 1..MaxItems
Checks == 1..MaxChecks

\* null of a JS reference / string; strings the code inspects (paths,
\* condition texts) are sequences of characters, "" and null being <<>>
NoSession == 0
Null == "null"
NoFile == <<>>
NoLine == 0
Undefined == <<>>
NoLocation == <<>>

\* the debug state the module starts with and resets to
InitialDebugState ==
    [ is_running |-> FALSE,
      data_breakpoints |-> {},
      execution_state |-> "unknown",
      stop_reason |-> Null,
      stop_location |-> NoLocation,
      stopped_at_breakpoint |-> FALSE,
      supports_data_breakpoints |-> FALSE ]

\* the four assignments that clear the stop fields
Running(state) ==
    [state EXCEPT !.execution_state = "running",
                  !.stop_reason = Null,
                  !.stop_location = NoLocation,
                  !.stopped_at_breakpoint = FALSE]

\* ---- frames handed to client.send
NullData == [kind |-> "null"]

OpenClients == { c \in clients : client_state[c] = "OPEN" }

\* broadcast_event(event_type, data): one frame to every open client
broadcast_event(event_type, data) ==
    [type |-> "event", to |-> OpenClients, event |-> event_type, data |-> data]

\* send_response(client, id, success, data = null, error = null)
send_response(client, id, success, data, error) ==
    [type |-> "response", to |-> {client}, id |-> id, success |-> success,
     data |-> IF success THEN data ELSE NullData,
     error |-> IF success THEN Null ELSE error]

send_error(client, id, error_message) ==
    send_response(client, id, FALSE, NullData, error_message)

\* ---- strings
Includes(str, ch) == \E i \in 1..Len(str) : str[i] = ch

StartsWith(str, prefix) ==
    /\ Len(prefix) <= Len(str)
    /\ SubSeq(str, 1, Len(prefix)) = prefix

EndsWith(str, suffix) ==
    /\ Len(suffix) <= Len(str)
    /\ SubSeq(str, Len(str) - Len(suffix) + 1, Len(str)) = suffix

RECURSIVE TrimStart(_)
TrimStart(str) ==
    IF Len(str) > 0 /\ Head(str) = " " THEN TrimStart(Tail(str)) ELSE str

RECURSIVE TrimEnd(_)
TrimEnd(str) ==
    IF Len(str) > 0 /\ str[Len(str)] = " "
    THEN TrimEnd(SubSeq(str, 1, Len(str) - 1))
    ELSE str

Trim(str) == TrimEnd(TrimStart(str))

\* str.replace(/\\/g, '/')
ReplaceBackslashes(str) == [i \in 1..Len(str) |-> IF str[i] = "\\" THEN "/" ELSE str[i]]

\* /^(>|<|>=|<=|==|!=|%)/
HitConditionPrefixes == { <<">">>, <<"<">>, <<">", "=">>, <<"<", "=">>,
                          <<"=", "=">>, <<"!", "=">>, <<"%">> }

parse_condition_hit_first(condition_str) ==
    LET none == [condition |-> Undefined, hitCondition |-> Undefined,
                 logMessage |-> Undefined]
    IN  IF condition_str = <<>> THEN none
        ELSE IF \E prefix \in HitConditionPrefixes : StartsWith(Trim(condition_str), prefix)
        THEN [none EXCEPT !.hitCondition = condition_str]
        ELSE IF Includes(condition_str, "{") /\ Includes(condition_str, "}")
        THEN [none EXCEPT !.logMessage = condition_str]
        ELSE [none EXCEPT !.condition = condition_str]

\* parse_condition(condition_str)
parse_condition(condition_str) ==
    LET none == [condition |-> Undefined, hitCondition |-> Undefined,
                 logMessage |-> Undefined]
    IN  IF condition_str = <<>> THEN none
        ELSE IF Includes(condition_str, "{") /\ Includes(condition_str, "}")
        THEN [none EXCEPT !.logMessage = condition_str]
        ELSE IF \E prefix \in HitConditionPrefixes : StartsWith(Trim(condition_str), prefix)
        THEN [none EXCEPT !.hitCondition = condition_str]
        ELSE [none EXCEPT !.condition = condition_str]

\* ---- the breakpoint registry
\* vscode.Uri.file(file).fsPath on a POSIX host: the path of a file URI is
\* made absolute, a '/' is put in front of a path that does not start with one
fsPath(file) ==
    IF file # <<>> /\ Head(file) = "/" THEN file ELSE <<"/">> \o file

\* new vscode.SourceBreakpoint(new Location(uri, new Position(line - 1, 0)),
\*                             undefined, condition, hitCondition, logMessage)
SourceBreakpoint(file, line, conditionProps) ==
    [ file |-> fsPath(file),
      line |-> line - 1,
      enabled |-> TRUE,
      condition |-> conditionProps.condition,
      hitCondition |-> conditionProps.hitCondition,
      logMessage |-> conditionProps.logMessage ]

\* lineNumbers.map(line => new vscode.SourceBreakpoint(...))
NewBreakpoints(file, lineNumbers, conditionProps) ==
    [i \in 1..Len(lineNumbers) |-> SourceBreakpoint(file, lineNumbers[i], conditionProps)]

\* vscode.debug.addBreakpoints(breakpoints)
addBreakpoints(registry, added) == registry \o added

get_breakpoints_zero_based ==
    [i \in 1..Len(breakpoints) |->
        [ file |-> breakpoints[i].file,
          line |-> breakpoints[i].line,
          enabled |-> breakpoints[i].enabled,
          condition |-> breakpoints[i].condition,
          hitCondition |-> breakpoints[i].hitCondition,
          logMessage |-> breakpoints[i].logMessage ]]

\* get_breakpoints()
get_breakpoints ==
    [i \in 1..Len(breakpoints) |->
        [ file |-> breakpoints[i].file,
          line |-> breakpoints[i].line + 1,
          enabled |-> breakpoints[i].enabled,
          condition |-> breakpoints[i].condition,
          hitCondition |-> breakpoints[i].hitCondition,
          logMessage |-> breakpoints[i].logMessage,
          type |-> "source" ]]

\* the comparison inside check_if_stopped_at_breakpoint
PathsMatch(bp_file, stop_file) ==
    LET bpFile == ReplaceBackslashes(bp_file)
        stopFile == ReplaceBackslashes(stop_file)
    IN  bpFile = stopFile \/ EndsWith(bpFile, stopFile) \/ EndsWith(stopFile, bpFile)

NoBreakpoint == [type |-> "undefined"]

\* check_if_stopped_at_breakpoint(file, line): Array.prototype.find
check_if_stopped_at_breakpoint(file, line) ==
    LET list == get_breakpoints
        hits == { i \in 1..Len(list) : PathsMatch(list[i].file, file) /\ list[i].line = line }
    IN  IF hits = {} THEN NoBreakpoint
        ELSE list[CHOOSE i \in hits : \A j \in hits : i <= j]

\* ---- the debug host
A_C == <<"a", ".", "c">>

\* stack frames the debug adapter reports: {source: {path, name}, line};
\* a frame without source information has no path and line 0
StackFrames ==
    { [path |-> A_C, name |-> A_C, line |-> 10],
      [path |-> NoFile, name |-> NoFile, line |-> 10],
      [path |-> NoFile, name |-> NoFile, line |-> NoLine] }
HostReasons == { "step", "exception" }

NoStop == [stopped |-> FALSE]
HostStops == { [stopped |-> TRUE, frame |-> f, reason |-> reason] :
                  f \in StackFrames, reason \in HostReasons }

\* what session.customRequest('stackTrace') can settle with: a rejection,
\* no frames, or the frames of the stopped thread
StackTraceAnswers == { "fail", "empty" } \cup (IF host.stopped THEN { "frames" } ELSE {})

\* the values of vscode.debug.activeStackItem: undefined, a thread, a frame
NoItem == [session |-> NoSession, threadId |-> 0, frameId |-> 0]
StackItems ==
    { NoItem }
    \cup (IF activeDebugSession # NoSession
          THEN { [session |-> activeDebugSession, threadId |-> 1, frameId |-> 0] }
          ELSE {})
    \cup (IF host.stopped
          THEN { [session |-> activeDebugSession, threadId |-> 1, frameId |-> 1] }
          ELSE {})

IdleItem == [pc |-> "idle", threadId |-> 0]
IdleCheck == "none"

FreeChecks == { k \in Checks : capability_check[k] = IdleCheck }

\* setTimeout(async () => { await check_data_breakpoint_capabilities() }, 1000):
\* at most MaxChecks checks are followed at a time
setTimeout(checks) ==
    IF FreeChecks = {} THEN checks
    ELSE [checks EXCEPT ![CHOOSE k \in FreeChecks : \A j \in FreeChecks : k <= j] = "armed"]

\* the debuggee of the active session stops (breakpoint hit, step done, ...)
host_stop(frame, reason) ==
    /\ activeDebugSession # NoSession
    /\ ~host.stopped
    /\ host' = [stopped |-> TRUE, frame |-> frame, reason |-> reason]
    /\ outbox' = <<>>
    /\ UNCHANGED <<sessions, activeDebugSession, current_session, debug_state,
                   breakpoints, clients, client_state, req, item, capability_check>>
    /\ UNCHANGED clientVars

\* the debuggee runs again
host_resume ==
    /\ host.stopped
    /\ host' = NoStop
    /\ outbox' = <<>>
    /\ UNCHANGED <<sessions, activeDebugSession, current_session, debug_state,
                   breakpoints, clients, client_state, req, item, capability_check>>
    /\ UNCHANGED clientVars

\* ---- setup_debug_listeners
onDidStartDebugSession_keep_stop(session) ==
    /\ session \notin sessions
    /\ sessions' = sessions \cup {session}
    /\ current_session' = session
    /\ debug_state' = [debug_state EXCEPT !.is_running = TRUE,
                                          !.execution_state = "running"]
    /\ capability_check' = setTimeout(capability_check)
    /\ outbox' = << broadcast_event("dap:session_started", [session |-> session]) >>
    /\ UNCHANGED <<activeDebugSession, host, breakpoints, clients, client_state, req, item>>
    /\ UNCHANGED clientVars

\* vscode.debug.onDidStartDebugSession(session => ...)
onDidStartDebugSession(session) ==
    /\ session \notin sessions
    /\ sessions' = sessions \cup {session}
    /\ current_session' = session
    /\ debug_state' = Running([debug_state EXCEPT !.is_running = TRUE])
    /\ capability_check' = setTimeout(capability_check)
    /\ outbox' = << broadcast_event("dap:session_started", [session |-> session]) >>
    /\ UNCHANGED <<activeDebugSession, host, breakpoints, clients, client_state, req, item>>
    /\ UNCHANGED clientVars

onDidTerminateDebugSession_keep_cache(session) ==
    /\ session \in sessions
    /\ sessions' = sessions \ {session}
    /\ IF session = activeDebugSession
       THEN activeDebugSession' = NoSession /\ host' = NoStop
       ELSE UNCHANGED <<activeDebugSession, host>>
    /\ IF session = current_session
       THEN /\ outbox' = << broadcast_event("dap:session_terminated", [session |-> session]) >>
            /\ current_session' = NoSession
            /\ debug_state' = [InitialDebugState EXCEPT
                                  !.data_breakpoints = debug_state.data_breakpoints]
       ELSE /\ outbox' = <<>>
            /\ UNCHANGED <<current_session, debug_state>>
    /\ UNCHANGED <<breakpoints, clients, client_state, req, item, capability_check>>
    /\ UNCHANGED clientVars

\* vscode.debug.onDidTerminateDebugSession(session => ...)
onDidTerminateDebugSession(session) ==
    /\ session \in sessions
    /\ sessions' = sessions \ {session}
    /\ IF session = activeDebugSession
       THEN activeDebugSession' = NoSession /\ host' = NoStop
       ELSE UNCHANGED <<activeDebugSession, host>>
    /\ IF session = current_session
       THEN /\ outbox' = << broadcast_event("dap:session_terminated", [session |-> session]) >>
            /\ current_session' = NoSession
            /\ debug_state' = InitialDebugState
       ELSE /\ outbox' = <<>>
            /\ UNCHANGED <<current_session, debug_state>>
    /\ UNCHANGED <<breakpoints, clients, client_state, req, item, capability_check>>
    /\ UNCHANGED clientVars

\* vscode.debug.onDidChangeActiveDebugSession(session => ...)
onDidChangeActiveDebugSession(session) ==
    /\ session \in sessions \cup {NoSession}
    /\ session # activeDebugSession
    /\ activeDebugSession' = session
    /\ host' = NoStop
    /\ IF session # NoSession /\ session = current_session
       THEN /\ debug_state' = [debug_state EXCEPT !.execution_state = "stopped",
                                                  !.stop_reason = "step"]
            /\ outbox' = << broadcast_event("dap:stopped", [reason |-> "step", threadId |-> 0]) >>
       ELSE /\ outbox' = <<>>
            /\ UNCHANGED debug_state
    /\ UNCHANGED <<sessions, current_session, breakpoints, clients, client_state,
                   req, item, capability_check>>
    /\ UNCHANGED clientVars

\* the location onDidChangeActiveStackItem builds from the stackTrace answer
item_location(answer) ==
    IF answer = "frames"
    THEN [file |-> host.frame.path, line |-> host.frame.line]
    ELSE [file |-> NoFile, line |-> NoLine]

Location(location) == <<location.file, location.line>>

stack_item_located_stopped_first(location, threadId) ==
    IF location.file = NoFile /\ location.line = NoLine
       /\ debug_state.execution_state = "stopped"
    THEN /\ debug_state' = Running(debug_state)
         /\ outbox' = << broadcast_event("dap:continued", [threadId |-> threadId]) >>
    ELSE IF location.file # NoFile \/ location.line # NoLine
    THEN LET both == location.file # NoFile /\ location.line # NoLine
             breakpoint == IF both
                           THEN check_if_stopped_at_breakpoint(location.file, location.line)
                           ELSE NoBreakpoint
             reason == IF breakpoint # NoBreakpoint THEN "breakpoint" ELSE "step"
         IN  /\ debug_state' =
                   [debug_state EXCEPT
                       !.execution_state = "stopped",
                       !.stop_location = Location(location),
                       !.stopped_at_breakpoint =
                           IF both THEN breakpoint # NoBreakpoint ELSE @]
             /\ outbox' =
                   << broadcast_event("dap:stopped",
                         [reason |-> reason, threadId |-> threadId,
                          location |-> Location(location)]) >>
                   \o (IF breakpoint # NoBreakpoint
                       THEN << broadcast_event("dap:breakpoint",
                                  [location |-> Location(location),
                                   condition |-> breakpoint.condition,
                                   hitCondition |-> breakpoint.hitCondition,
                                   logMessage |-> breakpoint.logMessage]) >>
                       ELSE <<>>)
    ELSE /\ outbox' = <<>>
         /\ UNCHANGED debug_state

\* onDidChangeActiveStackItem once the location is known
stack_item_located(location, threadId) ==
    IF location.file = NoFile /\ location.line = NoLine
       /\ debug_state.execution_state = "stopped"
    THEN /\ debug_state' = Running(debug_state)
         /\ outbox' = << broadcast_event("dap:continued", [threadId |-> threadId]) >>
    ELSE IF location.file # NoFile \/ location.line # NoLine
    THEN LET both == location.file # NoFile /\ location.line # NoLine
             breakpoint == IF both
                           THEN check_if_stopped_at_breakpoint(location.file, location.line)
                           ELSE NoBreakpoint
             reason == IF breakpoint # NoBreakpoint THEN "breakpoint" ELSE "step"
         IN  /\ debug_state' =
                   [debug_state EXCEPT
                       !.execution_state = "stopped",
                       !.stop_location = Location(location),
                       !.stopped_at_breakpoint =
                           IF both THEN breakpoint # NoBreakpoint ELSE @]
             /\ outbox' =
                   (IF breakpoint # NoBreakpoint
                    THEN << broadcast_event("dap:breakpoint",
                               [location |-> Location(location),
                                condition |-> breakpoint.condition,
                                hitCondition |-> breakpoint.hitCondition,
                                logMessage |-> breakpoint.logMessage]) >>
                    ELSE <<>>)
                   \o << broadcast_event("dap:stopped",
                            [reason |-> reason, threadId |-> threadId,
                             location |-> Location(location)]) >>
    ELSE /\ outbox' = <<>>
         /\ UNCHANGED debug_state

\* variant of onDidChangeActiveStackItem: the handler without its
\* `if (stack_item)` test, an undefined item being handled as one without ids
onDidChangeActiveStackItem_without_null_test(i, stack_item) ==
    /\ item[i].pc = "idle"
    /\ stack_item \in StackItems
    /\ IF stack_item.session # NoSession /\ stack_item.threadId # 0
          /\ stack_item.frameId # 0
       THEN /\ item' = [item EXCEPT ![i] = [pc |-> "stackTrace",
                                            threadId |-> stack_item.threadId]]
            /\ outbox' = <<>>
            /\ UNCHANGED debug_state
       ELSE /\ stack_item_located(item_location("none"), stack_item.threadId)
            /\ UNCHANGED item
    /\ UNCHANGED <<sessions, activeDebugSession, host, current_session, breakpoints,
                   clients, client_state, req, capability_check>>
    /\ UNCHANGED clientVars

\* vscode.debug.onDidChangeActiveStackItem(async stack_item => ...) up to
\* its await
onDidChangeActiveStackItem(i, stack_item) ==
    /\ item[i].pc = "idle"
    /\ stack_item \in StackItems
    /\ IF stack_item = NoItem
       THEN /\ outbox' = <<>>
            /\ UNCHANGED <<debug_state, item>>
       ELSE IF stack_item.session # NoSession /\ stack_item.threadId # 0
               /\ stack_item.frameId # 0
       THEN /\ item' = [item EXCEPT ![i] = [pc |-> "stackTrace",
                                            threadId |-> stack_item.threadId]]
            /\ outbox' = <<>>
            /\ UNCHANGED debug_state
       ELSE /\ stack_item_located(item_location("none"), stack_item.threadId)
            /\ UNCHANGED item
    /\ UNCHANGED <<sessions, activeDebugSession, host, current_session, breakpoints,
                   clients, client_state, req, capability_check>>
    /\ UNCHANGED clientVars

\* ... and from the answer to its stackTrace request on
stackTrace_answer(i, answer) ==
    /\ item[i].pc = "stackTrace"
    /\ answer \in StackTraceAnswers
    /\ stack_item_located(item_location(answer), item[i].threadId)
    /\ item' = [item EXCEPT ![i] = IdleItem]
    /\ UNCHANGED <<sessions, activeDebugSession, host, current_session, breakpoints,
                   clients, client_state, req, capability_check>>
    /\ UNCHANGED clientVars

\* the setTimeout callback of onDidStartDebugSession:
\* check_data_breakpoint_capabilities() up to its await
capability_timer(k, known) ==
    /\ capability_check[k] = "armed"
    /\ IF activeDebugSession = NoSession
       THEN /\ capability_check' = [capability_check EXCEPT ![k] = IdleCheck]
            /\ UNCHANGED debug_state
       ELSE IF known
       THEN /\ capability_check' = [capability_check EXCEPT ![k] = IdleCheck]
            /\ debug_state' = [debug_state EXCEPT !.supports_data_breakpoints = TRUE]
       ELSE /\ capability_check' = [capability_check EXCEPT ![k] = "capabilities"]
            /\ UNCHANGED debug_state
    /\ outbox' = <<>>
    /\ UNCHANGED <<sessions, activeDebugSession, host, current_session, breakpoints,
                   clients, client_state, req, item>>
    /\ UNCHANGED clientVars

\* ... and from the answer to customRequest('capabilities') on
capabilities_answer(k, result) ==
    /\ capability_check[k] = "capabilities"
    /\ capability_check' = [capability_check EXCEPT ![k] = IdleCheck]
    /\ debug_state' = [debug_state EXCEPT !.supports_data_breakpoints = (result = "true")]
    /\ outbox' = <<>>
    /\ UNCHANGED <<sessions, activeDebugSession, host, current_session, breakpoints,
                   clients, client_state, req, item>>
    /\ UNCHANGED clientVars

\* ---- handle_command
\* a request frame {id, command, data}; absent fields are 0, "", <<>>, and
\* an absent data.lines is AbsentLines
NoId == 0
AbsentLines == << -1 >>
Message(id, command) ==
    [id |-> id, command |-> command, action |-> "", threadId |-> 0,
     file |-> NoFile, lines |-> AbsentLines, condition |-> <<>>, dataIds |-> {}]

IdleReq == [pc |-> "idle", client |-> 0, id |-> NoId, action |-> "", threadId |-> 0,
            locals |-> <<>>]

Reply_without_send(r, frame) ==
    /\ req' = [req EXCEPT ![r] = IdleReq]
    /\ outbox' = <<>>

\* the handler returns after client.send
Reply(r, frame) ==
    /\ req' = [req EXCEPT ![r] = IdleReq]
    /\ outbox' = << frame >>

\* the handler stops at an await
Await(r, client, message, pc, locals) ==
    req' = [req EXCEPT ![r] = [pc |-> pc, client |-> client, id |-> message.id,
                               action |-> message.action,
                               threadId |-> message.threadId, locals |-> locals]]

\* ---- status
\* handle_status_command: the three values read before the call stack
StatusLocals ==
    [ execution_state |-> debug_state.execution_state,
      stop_location |-> debug_state.stop_location,
      stopped_at_breakpoint |-> debug_state.stopped_at_breakpoint ]

\* its catch block
status_catch(locals) ==
    IF locals.execution_state = "unknown"
    THEN [locals EXCEPT !.execution_state = "running"]
    ELSE locals

\* the top frame get_call_stack returns: source is path || name
TopFrame(frame) ==
    [ source |-> IF frame.path # NoFile THEN frame.path ELSE frame.name,
      line |-> frame.line ]

\* the block run when the call stack has a top frame: the locals ...
status_top_locals(locals, topFrame) ==
    [ execution_state |-> "stopped",
      stop_location |-> <<topFrame.source, topFrame.line>>,
      stopped_at_breakpoint |->
          IF topFrame.source # NoFile /\ topFrame.line # NoLine
          THEN check_if_stopped_at_breakpoint(topFrame.source, topFrame.line) # NoBreakpoint
          ELSE locals.stopped_at_breakpoint ]

\* ... and the committed state
status_top_state(state, topFrame) ==
    IF /\ topFrame.source # NoFile /\ topFrame.line # NoLine
       /\ check_if_stopped_at_breakpoint(topFrame.source, topFrame.line) # NoBreakpoint
    THEN [state EXCEPT !.execution_state = "stopped",
                       !.stop_reason = "breakpoint",
                       !.stop_location = <<topFrame.source, topFrame.line>>,
                       !.stopped_at_breakpoint = TRUE]
    ELSE state

\* the object handle_status_command returns
status_result(locals, state) ==
    [ kind |-> "status",
      debug_session_active |-> current_session # NoSession,
      is_running |-> state.is_running,
      execution_state |-> locals.execution_state,
      stop_reason |-> IF state.stop_reason # Null THEN state.stop_reason
                      ELSE IF locals.stopped_at_breakpoint THEN "breakpoint"
                      ELSE Null,
      stop_location |-> locals.stop_location,
      stopped_at_breakpoint |-> locals.stopped_at_breakpoint ]

\* case 'status', up to the await inside get_call_stack
handle_status_command(r, client, message) ==
    IF current_session = NoSession
    THEN /\ Reply(r, send_response(client, message.id, TRUE,
                                   status_result(StatusLocals, debug_state), Null))
         /\ UNCHANGED debug_state
    ELSE IF activeDebugSession = NoSession
    THEN /\ Reply(r, send_response(client, message.id, TRUE,
                                   status_result(status_catch(StatusLocals), debug_state),
                                   Null))
         /\ UNCHANGED debug_state
    ELSE /\ Await(r, client, message, "call_stack", StatusLocals)
         /\ outbox' = <<>>
         /\ UNCHANGED debug_state

\* what get_call_stack can settle with
CallStackAnswers == { "fail", "empty" } \cup (IF host.stopped THEN { "frames" } ELSE {})

call_stack_answer_commit_on_failure(r, answer) ==
    /\ req[r].pc = "call_stack"
    /\ answer \in CallStackAnswers
    /\ LET locals == req[r].locals
           after == IF answer = "fail" THEN status_catch(locals)
                    ELSE IF answer = "frames"
                    THEN status_top_locals(locals, TopFrame(host.frame))
                    ELSE locals
       IN  /\ debug_state' = IF answer = "frames"
                             THEN status_top_state(debug_state, TopFrame(host.frame))
                             ELSE IF answer = "fail" THEN Running(debug_state)
                             ELSE debug_state
           /\ Reply(r, send_response(req[r].client, req[r].id, TRUE,
                                     status_result(after, debug_state'), Null))
    /\ UNCHANGED <<sessions, activeDebugSession, host, current_session, breakpoints,
                   clients, client_state, item, capability_check>>
    /\ UNCHANGED clientVars

\* handle_status_command from the answer of get_call_stack on
call_stack_answer(r, answer) ==
    /\ req[r].pc = "call_stack"
    /\ answer \in CallStackAnswers
    /\ LET locals == req[r].locals
           after == IF answer = "fail" THEN status_catch(locals)
                    ELSE IF answer = "frames"
                    THEN status_top_locals(locals, TopFrame(host.frame))
                    ELSE locals
       IN  /\ debug_state' = IF answer = "frames"
                             THEN status_top_state(debug_state, TopFrame(host.frame))
                             ELSE debug_state
           /\ Reply(r, send_response(req[r].client, req[r].id, TRUE,
                                     status_result(after, debug_state'), Null))
    /\ UNCHANGED <<sessions, activeDebugSession, host, current_session, breakpoints,
                   clients, client_state, item, capability_check>>
    /\ UNCHANGED clientVars

\* ---- control
ResumeActions == { "continue", "stepOver", "stepIn", "stepOut" }
ControlActions == ResumeActions \cup { "pause" }

\* debug_continue / step_over / step_in / step_out / debug_pause between
\* the thread id and the resume request
control_commit(action, thread_id) ==
    IF action = "continue"
    THEN /\ debug_state' = Running(debug_state)
         /\ outbox' = << broadcast_event("dap:continued", [threadId |-> thread_id]) >>
    ELSE IF action \in ResumeActions
    THEN /\ debug_state' = [debug_state EXCEPT !.execution_state = "running"]
         /\ outbox' = << broadcast_event("dap:continued", [threadId |-> thread_id]) >>
    ELSE /\ outbox' = <<>>
         /\ UNCHANGED debug_state

\* what the control function has done by the time it awaits its resume
\* request: whether dap:continued went out, whether the stop fields changed
ControlLocals(action) ==
    [ continued |-> action \in ResumeActions,
      changed |-> IF action = "continue" THEN Running(debug_state) # debug_state
                  ELSE IF action \in ResumeActions
                  THEN debug_state.execution_state # "running"
                  ELSE FALSE ]

\* case 'control', up to the first await
handle_control_command(r, client, message) ==
    IF message.action = ""
    THEN /\ Reply(r, send_error(client, message.id, "Control action is required"))
         /\ UNCHANGED debug_state
    ELSE IF message.action \notin ControlActions
    THEN /\ Reply(r, send_error(client, message.id, "Unknown control action"))
         /\ UNCHANGED debug_state
    ELSE IF activeDebugSession = NoSession
    THEN /\ Reply(r, send_error(client, message.id, "No active debug session"))
         /\ UNCHANGED debug_state
    ELSE IF message.threadId = 0
    THEN /\ Await(r, client, message, "threads", <<>>)
         /\ outbox' = <<>>
         /\ UNCHANGED debug_state
    ELSE /\ Await(r, client, message, "resume", ControlLocals(message.action))
         /\ control_commit(message.action, message.threadId)

\* ... from the answer to customRequest('threads') on
threads_answer(r, ok) ==
    /\ req[r].pc = "threads"
    /\ IF ok
       THEN /\ req' = [req EXCEPT ![r].pc = "resume", ![r].threadId = 1,
                                   ![r].locals = ControlLocals(req[r].action)]
            /\ control_commit(req[r].action, 1)
       ELSE /\ Reply(r, send_error(req[r].client, req[r].id, "threads failed"))
            /\ UNCHANGED debug_state
    /\ UNCHANGED <<sessions, activeDebugSession, host, current_session, breakpoints,
                   clients, client_state, item, capability_check>>
    /\ UNCHANGED clientVars

\* ... from the answer to customRequest('continue' | 'next' | 'stepIn' |
\* 'stepOut' | 'pause') on
resume_answer(r, ok) ==
    /\ req[r].pc = "resume"
    /\ Reply(r, IF ok
                THEN send_response(req[r].client, req[r].id, TRUE, [kind |-> "result"], Null)
                ELSE send_error(req[r].client, req[r].id, "request failed"))
    /\ UNCHANGED <<sessions, activeDebugSession, host, current_session, debug_state,
                   breakpoints, clients, client_state, item, capability_check>>
    /\ UNCHANGED clientVars

\* ---- breakpoints
\* get_data_breakpoints()
get_data_breakpoints == debug_state.data_breakpoints

\* the entries set_breakpoints sends with customRequest('setBreakpoints')
dapBreakpoints(lineNumbers, conditionProps) ==
    [i \in 1..Len(lineNumbers) |->
        [ line |-> lineNumbers[i],
          condition |-> conditionProps.condition,
          hitCondition |-> conditionProps.hitCondition,
          logMessage |-> conditionProps.logMessage ]]

\* set_breakpoints(file, lines, condition) up to its await; new
\* vscode.Position(line - 1, 0) throws for a negative line
set_breakpoints(r, client, message) ==
    LET lineNumbers == message.lines
        conditionProps == parse_condition(message.condition)
        added == NewBreakpoints(message.file, lineNumbers, conditionProps)
    IN  IF \E i \in 1..Len(lineNumbers) : lineNumbers[i] - 1 < 0
        THEN /\ Reply(r, send_error(client, message.id, "Illegal argument: line must be non-negative"))
             /\ UNCHANGED breakpoints
        ELSE /\ Len(breakpoints) + Len(added) <= MaxBreakpoints
             /\ breakpoints' = addBreakpoints(breakpoints, added)
             /\ IF activeDebugSession # NoSession
                THEN /\ Await(r, client, message, "setBreakpoints",
                              [ vscode |-> Len(added), file |-> message.file,
                                sent |-> dapBreakpoints(lineNumbers, conditionProps) ])
                     /\ outbox' = <<>>
                ELSE Reply(r, send_response(client, message.id, TRUE,
                              [kind |-> "count", vscode |-> Len(added), dap |-> Null], Null))

\* existingBreakpoints / breakpointsToRemove of clear_breakpoints, as
\* positions in the registry
ExistingBreakpoints(file) ==
    { i \in 1..Len(breakpoints) : breakpoints[i].file = fsPath(file) }

BreakpointsToRemove(file, lines) ==
    IF lines = AbsentLines THEN ExistingBreakpoints(file)
    ELSE { i \in ExistingBreakpoints(file) :
              \E k \in 1..Len(lines) : lines[k] = breakpoints[i].line + 1 }

\* the elements of arr at the positions in keep, in order
RECURSIVE Pick(_, _, _)
Pick(arr, keep, i) ==
    IF i > Len(arr) THEN <<>>
    ELSE (IF i \in keep THEN <<arr[i]>> ELSE <<>>) \o Pick(arr, keep, i + 1)

\* vscode.debug.removeBreakpoints(breakpointsToRemove)
removeBreakpoints(registry, removed) == Pick(registry, (1..Len(registry)) \ removed, 1)

\* clear_breakpoints(file, lines = null) up to its await
clear_breakpoints(r, client, message) ==
    LET existing == ExistingBreakpoints(message.file)
        removed == BreakpointsToRemove(message.file, message.lines)
        remaining == Pick(breakpoints, existing \ removed, 1)
        remainingLines == [i \in 1..Len(remaining) |-> [line |-> remaining[i].line + 1]]
    IN  /\ breakpoints' = removeBreakpoints(breakpoints, removed)
        /\ IF activeDebugSession # NoSession
           THEN /\ Await(r, client, message, "setBreakpoints",
                         [ vscode |-> Cardinality(removed), file |-> message.file,
                           sent |-> remainingLines ])
                /\ outbox' = <<>>
           ELSE Reply(r, send_response(client, message.id, TRUE,
                         [kind |-> "count", vscode |-> Cardinality(removed), dap |-> Null], Null))

\* case 'breakpoints'
handle_breakpoints_command(r, client, message) ==
    IF message.action \in { "list", "" }
    THEN /\ Reply(r, send_response(client, message.id, TRUE,
                     [kind |-> "breakpoints", breakpoints |-> get_breakpoints,
                      data |-> get_data_breakpoints], Null))
         /\ UNCHANGED breakpoints
    ELSE IF message.action = "set"
    THEN IF message.file = NoFile \/ message.lines = AbsentLines
         THEN /\ Reply(r, send_error(client, message.id,
                                     "File and lines are required for set action"))
              /\ UNCHANGED breakpoints
         ELSE set_breakpoints(r, client, message)
    ELSE IF message.action = "clear"
    THEN IF message.file = NoFile
         THEN /\ Reply(r, send_error(client, message.id, "File is required for clear action"))
              /\ UNCHANGED breakpoints
         ELSE clear_breakpoints(r, client, message)
    ELSE /\ Reply(r, send_error(client, message.id, "Unknown breakpoint action"))
         /\ UNCHANGED breakpoints

\* set_breakpoints / clear_breakpoints from the answer to
\* customRequest('setBreakpoints') on: a failure is reported inside a
\* successful response
setBreakpoints_answer(r, ok) ==
    /\ req[r].pc = "setBreakpoints"
    /\ Reply(r, send_response(req[r].client, req[r].id, TRUE,
                  [kind |-> "count", vscode |-> req[r].locals.vscode,
                   dap |-> IF ok THEN "result" ELSE Null], Null))
    /\ UNCHANGED <<sessions, activeDebugSession, host, current_session, debug_state,
                   breakpoints, clients, client_state, item, capability_check>>
    /\ UNCHANGED clientVars

\* ---- data breakpoints
\* case 'setDataBreakpoints': set_data_breakpoints up to its await
handle_set_data_breakpoints(r, client, message) ==
    IF activeDebugSession = NoSession
    THEN Reply(r, send_error(client, message.id, "No active debug session"))
    ELSE IF ~debug_state.supports_data_breakpoints
    THEN Reply(r, send_error(client, message.id, "Data breakpoints are not supported"))
    ELSE /\ Await(r, client, message, "setDataBreakpoints", message.dataIds)
         /\ outbox' = <<>>

\* ... from the answer to customRequest('setDataBreakpoints') on; verified
\* is the set the adapter accepted
setDataBreakpoints_answer(r, ok, verified) ==
    /\ req[r].pc = "setDataBreakpoints"
    /\ verified \subseteq req[r].locals
    /\ IF ok
       THEN /\ debug_state' = [debug_state EXCEPT !.data_breakpoints = verified]
            /\ Reply(r, send_response(req[r].client, req[r].id, TRUE, [kind |-> "result"], Null))
       ELSE /\ UNCHANGED debug_state
            /\ Reply(r, send_error(req[r].client, req[r].id, "Failed to set data breakpoints"))
    /\ UNCHANGED <<sessions, activeDebugSession, host, current_session, breakpoints,
                   clients, client_state, item, capability_check>>
    /\ UNCHANGED clientVars

\* ---- commands that only query the debug host
\* get_variables, evaluate_expression, get_registers and get_disassembly
\* test current_session before vscode.debug.activeDebugSession
SessionQueries == { "variables", "evaluate", "registers", "disassemble" }
QueryCommands == { "callstack", "threads", "memory", "profiles" } \cup SessionQueries

\* case 'variables' | 'evaluate' | 'callstack' | 'threads' | 'registers' |
\* 'disassemble' | 'memory' | 'profiles': the function up to its first await
handle_query_command(r, client, message) ==
    IF message.command \in SessionQueries /\ current_session = NoSession
    THEN Reply(r, send_error(client, message.id, "No active debug session"))
    ELSE IF message.command # "profiles" /\ activeDebugSession = NoSession
    THEN Reply(r, send_error(client, message.id, "No active debug session"))
    ELSE /\ Await(r, client, message, "query", <<>>)
         /\ outbox' = <<>>

query_answer_marks_running(r, ok) ==
    /\ req[r].pc = "query"
    /\ Reply(r, IF ok
                THEN send_response(req[r].client, req[r].id, TRUE, [kind |-> "result"], Null)
                ELSE send_error(req[r].client, req[r].id, "request failed"))
    /\ debug_state' = Running(debug_state)
    /\ UNCHANGED <<sessions, activeDebugSession, host, current_session,
                   breakpoints, clients, client_state, item, capability_check>>
    /\ UNCHANGED clientVars

\* ... from the host's answer on
query_answer(r, ok) ==
    /\ req[r].pc = "query"
    /\ Reply(r, IF ok
                THEN send_response(req[r].client, req[r].id, TRUE, [kind |-> "result"], Null)
                ELSE send_error(req[r].client, req[r].id, "request failed"))
    /\ UNCHANGED <<sessions, activeDebugSession, host, current_session, debug_state,
                   breakpoints, clients, client_state, item, capability_check>>
    /\ UNCHANGED clientVars

\* handle_command(client, message) up to its first await
handle_command(r, client, message) ==
    /\ req[r].pc = "idle"
    /\ client \in clients
    /\ IF message.id = NoId
       THEN /\ Reply(r, send_error(client, NoId, "Missing message ID"))
            /\ UNCHANGED <<debug_state, breakpoints>>
       ELSE IF message.command = ""
       THEN /\ Reply(r, send_error(client, message.id, "Missing command"))
            /\ UNCHANGED <<debug_state, breakpoints>>
       ELSE IF message.command = "status"
       THEN /\ handle_status_command(r, client, message)
            /\ UNCHANGED breakpoints
       ELSE IF message.command = "control"
       THEN /\ handle_control_command(r, client, message)
            /\ UNCHANGED breakpoints
       ELSE IF message.command = "breakpoints"
       THEN /\ handle_breakpoints_command(r, client, message)
            /\ UNCHANGED debug_state
       ELSE IF message.command = "setDataBreakpoints"
       THEN /\ handle_set_data_breakpoints(r, client, message)
            /\ UNCHANGED <<debug_state, breakpoints>>
       ELSE IF message.command \in QueryCommands
       THEN /\ handle_query_command(r, client, message)
            /\ UNCHANGED <<debug_state, breakpoints>>
       ELSE /\ Reply(r, send_error(client, message.id, "Unknown command"))
            /\ UNCHANGED <<debug_state, breakpoints>>
    /\ UNCHANGED <<sessions, activeDebugSession, host, current_session,
                   clients, client_state, item, capability_check>>
    /\ UNCHANGED clientVars

\* ---- connections
ws_on_message_invalid_drops_client(client) ==
    /\ client \in clients
    /\ outbox' = << send_error(client, NoId, "Invalid message format") >>
    /\ clients' = clients \ { client }
    /\ UNCHANGED <<sessions, activeDebugSession, host, current_session, debug_state,
                   breakpoints, client_state, req, item, capability_check>>
    /\ UNCHANGED clientVars

\* ws.on('message', ...) for a frame JSON.parse rejects: the catch block
ws_on_message_invalid(client) ==
    /\ client \in clients
    /\ outbox' = << send_error(client, NoId, "Invalid message format") >>
    /\ UNCHANGED <<sessions, activeDebugSession, host, current_session, debug_state,
                   breakpoints, clients, client_state, req, item, capability_check>>
    /\ UNCHANGED clientVars

\* handle_websocket_connection(ws) up to the registration of its handlers
handle_websocket_connection(client) ==
    /\ client \notin clients
    /\ client_state[client] = "NONE"
    /\ clients' = clients \cup {client}
    /\ client_state' = [client_state EXCEPT ![client] = "OPEN"]
    /\ outbox' = <<>>
    /\ UNCHANGED <<sessions, activeDebugSession, host, current_session, debug_state,
                   breakpoints, req, item, capability_check>>
    /\ UNCHANGED clientVars

\* ---- end of bridge operators

\* ----------------------------------------------------------- specification
DispatcherInit ==
    /\ event_listeners = EmptyMap
    /\ ns_event_listeners = EmptyMap
    /\ wait = [w \in Waits |-> IdleWait]
    /\ escaped = FALSE

\* ------------------------------------------------ the bridge specification
\* the extension after activate(): no session, no client, default state
BridgeInit ==
    /\ sessions = {}
    /\ activeDebugSession = NoSession
    /\ host = NoStop
    /\ current_session = NoSession
    /\ debug_state = InitialDebugState
    /\ breakpoints = <<>>
    /\ clients = {}
    /\ client_state = [c \in Clients |-> "NONE"]
    /\ req = [r \in Reqs |-> IdleReq]
    /\ item = [i \in Items |-> IdleItem]
    /\ capability_check = [k \in Checks |-> IdleCheck]
    /\ outbox = <<>>

Init ==
    /\ DispatcherInit
    /\ BridgeInit
    /\ ws = NoSocket
    /\ connected = FALSE
    /\ connecting = FALSE
    /\ command_id_counter = 0
    /\ pending_commands = EmptyMap
    /\ readyState = [s \in Sockets |-> "NONE"]
    /\ errorQueued = [s \in Sockets |-> FALSE]
    /\ connectPromise = [s \in Sockets |-> "none"]
    /\ url_ok \in BOOLEAN
    /\ call = [c \in Calls |-> IdleCall]

Next ==
    \/ client_connect
    \/ \E c \in Calls, args \in ArgSet : send_command(c, args)
    \/ \E c \in Calls : send_command_resume(c)
    \/ \E c \in Calls : send_command_connect_failed(c)
    \/ \E c \in Calls : timeout_fire(c)
    \/ \E s \in Sockets : ws_onopen(s)
    \/ \E s \in Sockets : ws_onerror(s)
    \/ \E s \in Sockets : ws_onclose(s)
    \/ \E s \in Sockets, m \in Responses : ws_onmessage(s, m)
    \/ disconnect

Spec == Init /\ [][Next]_vars

\* The dispatcher on an established connection: the state after
\* `await client.connect()` succeeded, then subscriptions, waits and frames.
ConnectedInit ==
    /\ DispatcherInit
    /\ BridgeInit
    /\ ws = 1
    /\ connected = TRUE
    /\ connecting = FALSE
    /\ command_id_counter = 0
    /\ pending_commands = EmptyMap
    /\ readyState = [s \in Sockets |-> IF s = 1 THEN "OPEN" ELSE "NONE"]
    /\ errorQueued = [s \in Sockets |-> FALSE]
    /\ connectPromise = [s \in Sockets |-> IF s = 1 THEN "resolved" ELSE "none"]
    /\ url_ok = TRUE
    /\ call = [c \in Calls |-> IdleCall]

DispatcherNext ==
    \/ \E e \in EventNames, cb \in UserCallbacks : client_on(e, cb)
    \/ \E e \in EventNames, cb \in UserCallbacks \cup {NullCallback} : client_off(e, cb)
    \/ \E n \in Namespaces, cb \in UserCallbacks : client_on_namespace(n, cb)
    \/ \E n \in Namespaces, cb \in UserCallbacks \cup {NullCallback} :
          client_off_namespace(n, cb)
    \/ \E w \in Waits, events \in WaitLists : wait_for_event(w, events)
    \/ \E w \in Waits : wait_timeout(w)
    \/ \E s \in Sockets, m \in EventFrames : ws_onmessage(s, m)

DispatcherSpec == ConnectedInit /\ [][DispatcherNext]_vars


\* the transport eventually delivers the events it owes: a connecting socket
\* opens or fails, a closing socket gets its error and close events; armed
\* timers fire; continuations of settled promises run
Fairness ==
    /\ \A s \in Sockets :
          WF_vars(\/ readyState[s] = "CONNECTING" /\ (ws_onopen(s) \/ ws_onerror(s))
                  \/ readyState[s] = "CLOSING" /\ (ws_onerror(s) \/ ws_onclose(s)))
    /\ \A c \in Calls : WF_vars(timeout_fire(c))
    /\ \A c \in Calls : WF_vars(send_command_resume(c))
    /\ \A c \in Calls : WF_vars(send_command_connect_failed(c))

FairSpec == Spec /\ Fairness

\* a client process that has not connected
ClientInit ==
    /\ DispatcherInit
    /\ ws = NoSocket
    /\ connected = FALSE
    /\ connecting = FALSE
    /\ command_id_counter = 0
    /\ pending_commands = EmptyMap
    /\ readyState = [s \in Sockets |-> "NONE"]
    /\ errorQueued = [s \in Sockets |-> FALSE]
    /\ connectPromise = [s \in Sockets |-> "none"]
    /\ url_ok = TRUE
    /\ call = [c \in Calls |-> IdleCall]

Ids == { 1 }
DataIds == { "d1" }

ControlMessages ==
    { [Message(id, "control") EXCEPT !.action = action, !.threadId = threadId] :
         id \in Ids, action \in ControlActions \cup { "", "restart" }, threadId \in { 0, 1 } }

\* the frames a client sends in the bridge specification
BridgeMessages ==
    { Message(id, command) :
         id \in Ids \cup { NoId }, command \in { "status", "callstack", "", "bogus" } }
    \cup ControlMessages
    \cup { [Message(id, "breakpoints") EXCEPT !.action = "set", !.file = A_C,
                                              !.lines = <<10>>] : id \in Ids }

DataBreakpointMessages ==
    { [Message(id, "setDataBreakpoints") EXCEPT !.dataIds = DataIds] : id \in Ids }

\* session notifications, stops, stack items, status, control, breakpoints
BridgeNext ==
    \/ \E c \in Clients : handle_websocket_connection(c)
    \/ \E f \in StackFrames, reason \in HostReasons : host_stop(f, reason)
    \/ host_resume
    \/ \E s \in Sessions : onDidStartDebugSession(s)
    \/ \E s \in Sessions : onDidTerminateDebugSession(s)
    \/ \E s \in Sessions \cup {NoSession} : onDidChangeActiveDebugSession(s)
    \/ \E i \in Items, stack_item \in StackItems : onDidChangeActiveStackItem(i, stack_item)
    \/ \E i \in Items, answer \in { "fail", "empty", "frames" } : stackTrace_answer(i, answer)
    \/ \E r \in Reqs, c \in Clients, m \in BridgeMessages : handle_command(r, c, m)
    \/ \E r \in Reqs, answer \in { "fail", "empty", "frames" } : call_stack_answer(r, answer)
    \/ \E r \in Reqs, ok \in BOOLEAN : threads_answer(r, ok)
    \/ \E r \in Reqs, ok \in BOOLEAN : resume_answer(r, ok)
    \/ \E r \in Reqs, ok \in BOOLEAN : setBreakpoints_answer(r, ok)
    \/ \E r \in Reqs, ok \in BOOLEAN : query_answer(r, ok)

\* the bridge and the client library as constructed
BridgeStart == BridgeInit /\ ClientInit

BridgeSpec == BridgeStart /\ [][BridgeNext]_vars

\* session notifications, stops, stack items, capability checks and the
\* data-breakpoint cache
SessionNext ==
    \/ \E c \in Clients : handle_websocket_connection(c)
    \/ \E f \in StackFrames, reason \in HostReasons : host_stop(f, reason)
    \/ host_resume
    \/ \E s \in Sessions : onDidStartDebugSession(s)
    \/ \E s \in Sessions : onDidTerminateDebugSession(s)
    \/ \E s \in Sessions \cup {NoSession} : onDidChangeActiveDebugSession(s)
    \/ \E i \in Items, stack_item \in StackItems : onDidChangeActiveStackItem(i, stack_item)
    \/ \E i \in Items, answer \in { "fail", "empty", "frames" } : stackTrace_answer(i, answer)
    \/ \E k \in Checks, known \in BOOLEAN : capability_timer(k, known)
    \/ \E k \in Checks, result \in { "true", "false", "fail" } : capabilities_answer(k, result)
    \/ \E r \in Reqs, c \in Clients, m \in DataBreakpointMessages : handle_command(r, c, m)
    \/ \E r \in Reqs, ok \in BOOLEAN, verified \in SUBSET DataIds :
          setDataBreakpoints_answer(r, ok, verified)

SessionSpec == BridgeStart /\ [][SessionNext]_vars

\* ------------------------------------------------------------- claims
Registered(c) == call[c].id # 0
InPending(c) ==
    /\ call[c].id \in DOMAIN pending_commands
    /\ pending_commands[call[c].id] = c

\* C1: a registered send_command promise is settled at most once, through
\* one of response / timeout / send failure / close, and its id is in
\* pending_commands exactly while the promise is unsettled.
C1_SettlesOnceAndPendingIffUnsettled ==
    /\ \A c \in Calls :
          /\ call[c].settles <= 1
          /\ Registered(c) =>
                /\ (call[c].pc = "pending") <=> InPending(c)
                /\ call[c].pc \in {"pending", "settled"}
                /\ call[c].pc = "settled" =>
                      call[c].outcome.via \in {"response", "timeout", "send", "close"}
          /\ ~Registered(c) => call[c].pc \in {"idle", "awaiting", "settled"}
    /\ \A id \in DOMAIN pending_commands : call[pending_commands[id]].id = id

C1_Witness ==
    \E c, d \in Calls :
        /\ Registered(c) /\ call[c].pc = "settled" /\ call[c].settles = 1
        /\ call[c].outcome.via = "response"
        /\ Registered(d) /\ call[d].pc = "pending" /\ InPending(d)

\* C2: every send_command call that was made eventually settles.
C2_EveryCallSettles ==
    \A c \in Calls : (call[c].pc # "idle") ~> (call[c].pc = "settled")

\* C3: when the timer of a pending command fires its entry is removed and
\* the promise is rejected with a timeout error naming command and bound;
\* afterwards nothing (a late response included) changes that promise or
\* brings the id back into the map.
C3_TimeoutRemovesAndRejects ==
    [][\A c \in Calls :
          /\ (call[c].timer = "armed" /\ call'[c].timer = "fired") =>
                /\ call[c].id \notin DOMAIN pending_commands'
                /\ call'[c].pc = "settled"
                /\ call'[c].settles = 1
                /\ call'[c].outcome =
                      Rejected("timeout", [text |-> "timed out",
                                           command |-> call[c].args.command,
                                           timeout |-> call[c].args.timeout])
          /\ call[c].timer = "fired" =>
                /\ call'[c] = call[c]
                /\ call[c].id \notin DOMAIN pending_commands
                /\ call[c].id \notin DOMAIN pending_commands'
      ]_vars

C3_Witness ==
    \E c \in Calls :
        /\ call[c].timer = "fired"
        /\ call[c].outcome.via = "timeout"
        /\ call[c].outcome.error.command = "control"
        /\ call[c].outcome.error.timeout = 50

\* C4: the close handler rejects every command pending at that moment with
\* 'Connection closed', cancels their timers and leaves the map empty, all
\* in the one handler step.
C4_CloseDrainsAllPending ==
    [][\A s \in Sockets :
          (readyState[s] # "CLOSED" /\ readyState'[s] = "CLOSED") =>
              /\ pending_commands' = EmptyMap
              /\ \A id \in DOMAIN pending_commands :
                    LET c == pending_commands[id]
                    IN  /\ call'[c].pc = "settled"
                        /\ call'[c].settles = 1
                        /\ call'[c].timer = "cleared"
                        /\ call'[c].outcome =
                              Rejected("close", [text |-> "Connection closed",
                                                 command |-> "", timeout |-> 0])
      ]_vars

C4_Witness ==
    /\ \E s \in Sockets : readyState[s] = "CLOSED"
    /\ Cardinality({c \in Calls : call[c].outcome.via = "close"}) >= 2
    /\ pending_commands = EmptyMap

\* C5: a response with id X settles exactly the pending command with id X
\* (resolve with the data on success, reject with the error text otherwise,
\* 'Command failed' when the frame carries no text), cancels its timer for
\* good and leaves every other command and entry untouched.
C5_ResponseSettlesItsCommandOnly ==
    [][/\ \A s \in Sockets, m \in Responses :
             (ws_onmessage(s, m) /\ m.id \in DOMAIN pending_commands) =>
                 LET c == pending_commands[m.id]
                 IN  /\ call[c].id = m.id
                     /\ call'[c].pc = "settled"
                     /\ call'[c].settles = 1
                     /\ call'[c].timer = "cleared"
                     /\ m.success =>
                           /\ call'[c].outcome.state = "resolved"
                           /\ call'[c].outcome.data = m.data
                     /\ ~m.success =>
                           /\ call'[c].outcome.state = "rejected"
                           /\ call'[c].outcome.error.text =
                                 (IF m.error = "" THEN "Command failed" ELSE m.error)
                     /\ \A d \in Calls \ {c} : call'[d] = call[d]
                     /\ DOMAIN pending_commands' = (DOMAIN pending_commands) \ {m.id}
                     /\ \A id \in DOMAIN pending_commands' :
                           pending_commands'[id] = pending_commands[id]
       /\ \A c \in Calls :
             call[c].timer = "cleared" => call'[c].timer = "cleared"
      ]_vars

C5_Witness ==
    \E c, d \in Calls :
        /\ c < d
        /\ call[d].outcome.via = "response" /\ call[d].outcome.state = "rejected"
        /\ call[d].outcome.error.text = "no active debug session"
        /\ call[d].timer = "cleared"
        /\ call[c].pc = "pending" /\ call[c].timer = "armed" /\ InPending(c)

\* C6: a send that throws synchronously rejects the promise with the send
\* failure error, cancels the timer and removes the entry; no entry for the
\* id remains and its timer never fires.
C6_SendFailureCleansUp ==
    [][\A c \in Calls :
          /\ (~Registered(c) /\ call'[c].id # 0 /\ SendThrows) =>
                /\ call'[c].pc = "settled"
                /\ call'[c].settles = 1
                /\ call'[c].outcome =
                      Rejected("send", [text |-> "Failed to send command",
                                        command |-> "", timeout |-> 0])
          /\ call'[c].outcome.via = "send" =>
                /\ call'[c].timer = "cleared"
                /\ call'[c].id \notin DOMAIN pending_commands'
      ]_vars

C6_Witness ==
    \E c \in Calls :
        /\ call[c].outcome.via = "send"
        /\ call[c].timer = "cleared"
        /\ Registered(c)


\* ------------------------------------------------- claims, the dispatcher
\* the callback invocations emit_event makes for a frame in the current state
Invocations(event, data) == emit_result(Dispatcher, event, data).log

ListenersOf(listeners, key) == IF key \in DOMAIN listeners THEN listeners[key] ELSE <<>>

\* what the dispatch contract asks for: every exact-name subscriber with
\* (data), then every subscriber of the name's first segment with
\* (second segment, data)
ExpectedInvocations(event, data) ==
    LET exact == ListenersOf(event_listeners, event)
        byNs == ListenersOf(ns_event_listeners, event[1])
        local == IF Len(event) >= 2 THEN event[2] ELSE "undefined"
    IN  [i \in 1..Len(exact) |-> [cb |-> exact[i], name |-> "", data |-> data]]
        \o [i \in 1..Len(byNs) |-> [cb |-> byNs[i], name |-> local, data |-> data]]

IsUserInvocation(inv) == ~IsWaitHandler(inv.cb)

\* C7: for every inbound event frame every exact-name subscriber is invoked
\* with the data and every subscriber of the event's namespace with
\* (local name, data), and nobody else is invoked.  Stated for the
\* subscribers made with on / on_namespace.
C7_EverySubscriberInvoked ==
    \A m \in EventFrames :
        SelectSeq(Invocations(m.event, m.data), IsUserInvocation)
            = SelectSeq(ExpectedInvocations(m.event, m.data), IsUserInvocation)

QuietCb(cb) == IF cb[1] = "cb" THEN <<"cb", cb[2], 0>> ELSE cb
QuietMap(listeners) ==
    [k \in DOMAIN listeners |->
        [i \in 1..Len(listeners[k]) |-> QuietCb(listeners[k][i])]]
QuietLog(log) == [i \in 1..Len(log) |-> [log[i] EXCEPT !.cb = QuietCb(@)]]
HasWaitHandler(arr) == \E i \in 1..Len(arr) : IsWaitHandler(arr[i])

\* C8: a subscriber that throws during a dispatch prevents no other
\* subscriber of that emission from being invoked (the emission invokes the
\* same callbacks, with the same effects, as if nobody had thrown) and the
\* exception does not leave emit_event.
C8_ThrowingSubscriberIsContained ==
    /\ ~escaped
    /\ \A m \in EventFrames :
          LET r == emit_result(Dispatcher, m.event, m.data)
              q == emit_result([Dispatcher EXCEPT !.el = QuietMap(@),
                                                  !.nl = QuietMap(@)],
                               m.event, m.data)
          IN  /\ ~r.escaped
              /\ QuietLog(r.log) = q.log
              /\ QuietMap(r.el) = q.el
              /\ r.wait = q.wait
              /\ ~HasWaitHandler(ListenersOf(event_listeners, m.event)) =>
                    r.log = ExpectedInvocations(m.event, m.data)

C8_Witness ==
    \E m \in EventFrames :
        LET log == Invocations(m.event, m.data)
        IN  \E i, j \in 1..Len(log) :
               /\ i < j
               /\ Throws(log[i].cb)
               /\ ~Throws(log[j].cb)
               /\ log[i].name = "" /\ log[j].name # ""

ListedNames(w) == { wait[w].events[i] : i \in 1..Len(wait[w].events) }

\* C9: wait_for_event settles exactly once: it resolves with {event, data}
\* of the first listed event to arrive, or rejects when the timer fires
\* first; a settled wait never changes again and a pending one always has
\* its timer armed.
C9_WaitSettlesOnceWithFirstEvent ==
    [][\A w \in Waits :
          /\ wait[w].pc = "settled" =>
                /\ wait'[w].pc = "settled"
                /\ wait'[w].outcome = wait[w].outcome
          /\ wait[w].pc = "pending" => wait[w].timer = "armed"
          /\ (wait[w].timer = "armed" /\ wait'[w].timer = "fired") =>
                /\ wait'[w].pc = "settled"
                /\ wait'[w].outcome.state = "rejected"
          /\ \A s \in Sockets, m \in EventFrames :
                (/\ ws_onmessage(s, m)
                 /\ wait[w].pc = "pending"
                 /\ m.event \in ListedNames(w)) =>
                    /\ wait'[w].pc = "settled"
                    /\ wait'[w].outcome =
                          [state |-> "resolved", event |-> m.event, data |-> m.data]
      ]_vars

\* C10: once a wait_for_event call has settled, none of the temporary
\* listeners it registered is left in the listener registry.
C10_NoTemporaryListenerLeft ==
    \A w \in Waits :
        wait[w].pc = "settled" =>
            \A e \in DOMAIN event_listeners :
                \A i \in 1..Len(event_listeners[e]) :
                    ~(/\ IsWaitHandler(event_listeners[e][i])
                      /\ event_listeners[e][i][2] = w)

Others(arr, cb) == SelectSeq(arr, LAMBDA x : x # cb)
Subscribers(listeners, key) == IF key \in DOMAIN listeners THEN listeners[key] ELSE <<>>

\* what off / off_namespace with a callback must leave behind under key:
\* the callback is gone, every other subscriber is kept in order, and the
\* other names are untouched
RemovedOnly(before, after, key, cb) ==
    /\ IndexOf(Subscribers(after, key), cb) = 0
    /\ Others(Subscribers(after, key), cb) = Others(Subscribers(before, key), cb)
    /\ \A k \in (DOMAIN before \cup DOMAIN after) \ {key} :
          Subscribers(after, k) = Subscribers(before, k)

NoEmptyList(listeners) == \A k \in DOMAIN listeners : Len(listeners[k]) > 0

\* C11: off(event) without a callback removes every subscriber of that
\* name; off(event, cb) removes cb and nothing else, so cb is not among the
\* subscribers of the event afterwards while the others still are (same
\* for off_namespace); and neither listener map ever holds a name whose
\* callback list is empty.
C11_OffRemovesExactlyTheCallback ==
    /\ [](NoEmptyList(event_listeners) /\ NoEmptyList(ns_event_listeners))
    /\ [][/\ \A e \in EventNames :
                client_off(e, NullCallback) => e \notin DOMAIN event_listeners'
          /\ \A n \in Namespaces :
                client_off_namespace(n, NullCallback) =>
                    n \notin DOMAIN ns_event_listeners'
          /\ \A e \in EventNames, cb \in UserCallbacks :
                client_off(e, cb) =>
                    RemovedOnly(event_listeners, event_listeners', e, cb)
          /\ \A n \in Namespaces, cb \in UserCallbacks :
                client_off_namespace(n, cb) =>
                    RemovedOnly(ns_event_listeners, ns_event_listeners', n, cb)
        ]_vars

\* every kind of command, sent to a bridge that has a client and follows
\* session 1: the state after handle_websocket_connection,
\* onDidStartDebugSession and the capability check, the session being the
\* active one or not
CommandInit ==
    /\ sessions = {1}
    /\ activeDebugSession \in {NoSession, 1}
    /\ host = NoStop
    /\ current_session = 1
    /\ \E supported \in BOOLEAN :
          debug_state = [Running(InitialDebugState) EXCEPT
                            !.is_running = TRUE,
                            !.supports_data_breakpoints = supported]
    /\ breakpoints = <<>>
    /\ clients = {1}
    /\ client_state = [c \in Clients |-> IF c = 1 THEN "OPEN" ELSE "NONE"]
    /\ req = [r \in Reqs |-> IdleReq]
    /\ item = [i \in Items |-> IdleItem]
    /\ capability_check = [k \in Checks |-> IdleCheck]
    /\ outbox = <<>>

CommandIds == { 1, 2 }
BreakpointsMessage(id, action, file, lines) ==
    [Message(id, "breakpoints") EXCEPT !.action = action, !.file = file, !.lines = lines]
CommandMessages ==
    { Message(id, command) :
         id \in CommandIds \cup { NoId },
         command \in { "status", "", "bogus" } \cup QueryCommands }
    \cup { [Message(id, "control") EXCEPT !.action = action] :
             id \in CommandIds, action \in ControlActions \cup { "", "restart" } }
    \cup { [Message(id, "control") EXCEPT !.action = "continue", !.threadId = 1] :
             id \in CommandIds }
    \cup { BreakpointsMessage(id, a[1], a[2], a[3]) :
             id \in CommandIds,
             a \in { <<"", NoFile, AbsentLines>>, <<"toggle", A_C, <<10>> >>,
                     <<"set", NoFile, <<10>> >>, <<"set", A_C, AbsentLines>>,
                     <<"set", A_C, <<10>> >>, <<"set", A_C, <<0>> >>,
                     <<"clear", NoFile, AbsentLines>>, <<"clear", A_C, AbsentLines>>,
                     <<"clear", A_C, <<10>> >> } }
    \cup { [Message(id, "setDataBreakpoints") EXCEPT !.dataIds = DataIds] :
             id \in CommandIds }
    \cup { BreakpointsMessage(NoId, "set", A_C, <<10>>),
           [Message(NoId, "control") EXCEPT !.action = "continue", !.threadId = 1] }

CommandNext ==
    \/ \E c \in Clients : ws_on_message_invalid(c)
    \/ \E f \in StackFrames, reason \in HostReasons : host_stop(f, reason)
    \/ host_resume
    \/ \E r \in Reqs, c \in Clients, m \in CommandMessages : handle_command(r, c, m)
    \/ \E r \in Reqs, answer \in { "fail", "empty", "frames" } : call_stack_answer(r, answer)
    \/ \E r \in Reqs, ok \in BOOLEAN : threads_answer(r, ok)
    \/ \E r \in Reqs, ok \in BOOLEAN : resume_answer(r, ok)
    \/ \E r \in Reqs, ok \in BOOLEAN : setBreakpoints_answer(r, ok)
    \/ \E r \in Reqs, ok \in BOOLEAN, verified \in SUBSET DataIds :
          setDataBreakpoints_answer(r, ok, verified)
    \/ \E r \in Reqs, ok \in BOOLEAN : query_answer(r, ok)

\* the bridge and the client library as constructed
CommandStart == CommandInit /\ ClientInit

CommandSpec == CommandStart /\ [][CommandNext]_vars

\* ---- claims about the bridge
IsResponse(frame) == frame.type = "response"
IsEvent(frame) == frame.type = "event"
ResponsesIn(box) == SelectSeq(box, IsResponse)
EventsIn(box) == SelectSeq(box, IsEvent)
Broadcast(box, event_type) ==
    \E i \in 1..Len(box) : IsEvent(box[i]) /\ box[i].event = event_type

\* the step ends the handle_command invocation r
Finishes(r) == req[r].pc # "idle" /\ req'[r].pc = "idle"

WellFormedResponse(frame) ==
    /\ frame.success => frame.error = Null
    /\ ~frame.success => frame.data = NullData

\* C12: every frame with an id and a command gets exactly one response
\* with that id, whatever the command does or throws: none while the
\* command awaits the debug host, one in the step that ends it; a success
\* carries error = null and a failure data = null.
C12_OneResponsePerRequest ==
    [][/\ \A r \in Reqs, c \in Clients, m \in CommandMessages :
             (m.id # NoId /\ m.command # "" /\ handle_command(r, c, m)) =>
                 IF req'[r].pc = "idle"
                 THEN /\ Len(ResponsesIn(outbox')) = 1
                      /\ ResponsesIn(outbox')[1].id = m.id
                      /\ ResponsesIn(outbox')[1].to = {c}
                 ELSE ResponsesIn(outbox') = <<>>
       /\ \A r \in Reqs :
             Finishes(r) =>
                 /\ Len(ResponsesIn(outbox')) = 1
                 /\ ResponsesIn(outbox')[1].id = req[r].id
                 /\ ResponsesIn(outbox')[1].to = {req[r].client}
       /\ ResponsesIn(outbox') # <<>> =>
             \/ \E r \in Reqs : Finishes(r)
             \/ \E r \in Reqs, c \in Clients, m \in CommandMessages :
                   handle_command(r, c, m)
             \/ \E c \in Clients : ws_on_message_invalid(c)
       /\ \A i \in 1..Len(outbox') :
             IsResponse(outbox'[i]) => WellFormedResponse(outbox'[i])
      ]_vars

\* a command threw after the debug host rejected its request, and the
\* caller got the error response
C12_Witness ==
    /\ Len(outbox) = 1
    /\ IsResponse(outbox[1])
    /\ outbox[1].id \in CommandIds
    /\ ~outbox[1].success
    /\ outbox[1].error = "request failed"
    /\ \A r \in Reqs : req[r].pc = "idle"

StopFieldsCleared(state) ==
    /\ state.stop_reason = Null
    /\ state.stop_location = NoLocation
    /\ state.stopped_at_breakpoint = FALSE

\* C13: a session-start notification sets the execution state to
\* 'running', clears stop_reason, stop_location and stopped_at_breakpoint,
\* makes the started session the current one and broadcasts
\* dap:session_started.
C13_SessionStartRuns ==
    [][\A s \in Sessions :
          onDidStartDebugSession(s) =>
              /\ debug_state'.execution_state = "running"
              /\ StopFieldsCleared(debug_state')
              /\ current_session' = s
              /\ outbox' = << broadcast_event("dap:session_started", [session |-> s]) >>
      ]_vars

\* a second session has started while the first one was still there
C13_Witness ==
    /\ Cardinality(sessions) = 2
    /\ current_session # NoSession
    /\ Broadcast(outbox, "dap:session_started")
    /\ debug_state.execution_state = "running"

\* C16: the termination of the current session broadcasts
\* dap:session_terminated, leaves no current session and resets the whole
\* debug state (execution state 'unknown', stop fields cleared, no data
\* breakpoint cached, supports_data_breakpoints false); the termination of
\* any other session changes nothing in the bridge and broadcasts nothing.
C16_TerminationResets ==
    [][\A s \in Sessions :
          onDidTerminateDebugSession(s) =>
              IF s = current_session
              THEN /\ outbox' = << broadcast_event("dap:session_terminated", [session |-> s]) >>
                   /\ current_session' = NoSession
                   /\ debug_state'.execution_state = "unknown"
                   /\ StopFieldsCleared(debug_state')
                   /\ debug_state'.data_breakpoints = {}
                   /\ debug_state'.supports_data_breakpoints = FALSE
                   /\ debug_state' = InitialDebugState
              ELSE /\ outbox' = <<>>
                   /\ UNCHANGED <<current_session, debug_state, breakpoints, clients,
                                  client_state, req, item, capability_check>>
      ]_vars

\* the current session has terminated while another session is running
C16_Witness ==
    /\ Broadcast(outbox, "dap:session_terminated")
    /\ current_session = NoSession
    /\ sessions # {}
    /\ debug_state = InitialDebugState

\* the step processes a stop: the stack trace of a stack-item notification
\* resolves to a top frame with a file or a line
ProcessesStop(i, answer) ==
    /\ host.stopped
    /\ answer = "frames"
    /\ host.frame.path # NoFile \/ host.frame.line # NoLine
    /\ stackTrace_answer(i, answer)

\* the registry has a record for the (file, line) of the frame
FrameMatches(file, line) ==
    /\ file # NoFile
    /\ line # NoLine
    /\ check_if_stopped_at_breakpoint(file, line) # NoBreakpoint

\* C14: after a stop is processed the committed state is 'stopped' with
\* stop_location the top frame; with a registry record matching the top
\* frame's (file, line) stop_reason is 'breakpoint' and
\* stopped_at_breakpoint is true, otherwise stopped_at_breakpoint is false
\* and stop_reason is the reason the debug host reported.
C14_StopCommitsLocationAndReason ==
    [][\A i \in Items :
          ProcessesStop(i, "frames") =>
              /\ debug_state'.execution_state = "stopped"
              /\ debug_state'.stop_location = <<host.frame.path, host.frame.line>>
              /\ IF FrameMatches(host.frame.path, host.frame.line)
                 THEN /\ debug_state'.stop_reason = "breakpoint"
                      /\ debug_state'.stopped_at_breakpoint
                 ELSE /\ debug_state'.stop_reason = host.reason
                      /\ ~debug_state'.stopped_at_breakpoint
      ]_vars

\* the step is the one in which a resuming control command, having its
\* thread id, changes the state: the resume request is then still to be
\* answered
Resumes(r) ==
    /\ req'[r].pc = "resume"
    /\ req'[r].action \in ResumeActions
    /\ req[r].pc \in { "idle", "threads" }

\* C15: continue, stepOver, stepIn and stepOut with an active session set
\* the execution state to 'running', clear stop_reason, stop_location and
\* stopped_at_breakpoint and broadcast dap:continued before the debug host
\* answers the resume request.
C15_ResumeClearsStopFields ==
    [][\A r \in Reqs :
          Resumes(r) =>
              /\ debug_state'.execution_state = "running"
              /\ StopFieldsCleared(debug_state')
              /\ Len(outbox') = 1
              /\ IsEvent(outbox'[1])
              /\ outbox'[1].event = "dap:continued"
      ]_vars

\* the status frames of the bridge specification
StatusMessages == { Message(id, "status") : id \in Ids }

\* the step answers a status query: at once, or with the call stack
StatusImmediate(r) ==
    /\ req[r].pc = "idle"
    /\ req'[r].pc = "idle"
    /\ \E c \in Clients, m \in StatusMessages : handle_command(r, c, m)

StatusResult == outbox'[1].data

\* nothing was committed between the start of the query and its answer
Undisturbed(r) == req[r].locals = StatusLocals

StoppedAt(file, line, reason) ==
    /\ host.stopped
    /\ host.frame.path = file
    /\ host.frame.line = line
    /\ host.reason = reason
    /\ debug_state.execution_state = "stopped"
    /\ debug_state.stop_location = <<file, line>>

\* C17: after a session start status reports 'running'; after the debug
\* host has reported a stop at (a.c, 10) with reason 'step' and no
\* breakpoint is registered there, status reports 'stopped', stop_reason
\* 'step' and stopped_at_breakpoint false; with a breakpoint set at
\* (a.c, 10) and the same stop, status reports stop_reason 'breakpoint' and
\* stopped_at_breakpoint true.
C17_StatusScenario ==
    [][\A r \in Reqs :
          /\ (/\ req[r].pc = "call_stack"
              /\ Undisturbed(r)
              /\ ~host.stopped
              /\ debug_state.execution_state = "running"
              /\ \E answer \in { "fail", "empty" } : call_stack_answer(r, answer)) =>
                 StatusResult.execution_state = "running"
          /\ (/\ req[r].pc = "call_stack"
              /\ Undisturbed(r)
              /\ StoppedAt(A_C, 10, "step")
              /\ call_stack_answer(r, "frames")) =>
                 /\ StatusResult.execution_state = "stopped"
                 /\ IF FrameMatches(A_C, 10)
                    THEN /\ StatusResult.stop_reason = "breakpoint"
                         /\ StatusResult.stopped_at_breakpoint
                    ELSE /\ StatusResult.stop_reason = "step"
                         /\ ~StatusResult.stopped_at_breakpoint
      ]_vars

\* C18: with an active session, a live call stack with a top frame makes
\* status report 'stopped' and that frame as stop_location, with
\* stopped_at_breakpoint true exactly when the frame matches a registered
\* breakpoint; when the fetch fails status reports 'running' for a
\* committed 'unknown' and the committed state otherwise.
C18_StatusReconcilesLiveStack ==
    [][\A r \in Reqs :
          /\ (req[r].pc = "call_stack" /\ host.stopped /\ call_stack_answer(r, "frames")) =>
                LET topFrame == TopFrame(host.frame)
                IN  /\ StatusResult.execution_state = "stopped"
                    /\ StatusResult.stop_location = <<topFrame.source, topFrame.line>>
                    /\ StatusResult.stopped_at_breakpoint =
                           FrameMatches(topFrame.source, topFrame.line)
          /\ (req[r].pc = "call_stack" /\ call_stack_answer(r, "fail")) =>
                StatusResult.execution_state =
                    IF req[r].locals.execution_state = "unknown" THEN "running"
                    ELSE req[r].locals.execution_state
          /\ (current_session # NoSession /\ StatusImmediate(r)) =>
                StatusResult.execution_state =
                    IF debug_state.execution_state = "unknown" THEN "running"
                    ELSE debug_state.execution_state
      ]_vars

CommittedStop(state) ==
    <<state.execution_state, state.stop_reason, state.stop_location,
      state.stopped_at_breakpoint>>

\* C19: a status query never fails the caller, and a failure of the debug
\* host during it changes nothing committed: when the call-stack fetch
\* throws the response is still success = true and execution_state,
\* stop_reason, stop_location and stopped_at_breakpoint are as before.
C19_StatusNeverFails ==
    [][\A r \in Reqs :
          /\ (req[r].pc = "call_stack" /\ Finishes(r)) =>
                /\ Len(outbox') = 1
                /\ outbox'[1].success
                /\ outbox'[1].data.kind = "status"
          /\ (req[r].pc = "call_stack" /\ call_stack_answer(r, "fail")) =>
                CommittedStop(debug_state') = CommittedStop(debug_state)
          /\ StatusImmediate(r) =>
                /\ Len(outbox') = 1
                /\ outbox'[1].success
                /\ CommittedStop(debug_state') = CommittedStop(debug_state)
      ]_vars

\* a status query was answered while no debug session is active, so that
\* get_call_stack threw: the answer is a success carrying the last-known
\* values, and the committed state still says 'stopped' with reason 'step'
C19_Witness ==
    /\ current_session # NoSession
    /\ activeDebugSession = NoSession
    /\ Len(outbox) = 1
    /\ IsResponse(outbox[1])
    /\ outbox[1].success
    /\ outbox[1].data.kind = "status"
    /\ outbox[1].data.execution_state = "stopped"
    /\ outbox[1].data.stop_reason = "step"
    /\ debug_state.execution_state = "stopped"
    /\ debug_state.stop_reason = "step"

\* ---- the breakpoint registry under set, clear and list requests
B_C == <<"b", ".", "c">>
ABS_B_C == <<"/", "b", ".", "c">>
X_GT_1 == <<"x", ">", "1">>
GT_5 == <<">", "5">>

RegistryMessages ==
    { [BreakpointsMessage(id, "set", file, lines) EXCEPT !.condition = condition] :
         id \in Ids, file \in { A_C, B_C, ABS_B_C }, lines \in { <<10>>, <<11>>, <<10, 11>> },
         condition \in { <<>>, X_GT_1, GT_5 } }
    \cup { BreakpointsMessage(id, "clear", file, lines) :
             id \in Ids, file \in { A_C, B_C, ABS_B_C }, lines \in { AbsentLines, <<10>> } }
    \cup { BreakpointsMessage(id, "list", NoFile, AbsentLines) : id \in Ids }

RegistryNext ==
    \/ \E r \in Reqs, c \in Clients, m \in RegistryMessages : handle_command(r, c, m)
    \/ \E r \in Reqs, ok \in BOOLEAN : setBreakpoints_answer(r, ok)

RegistrySpec == CommandStart /\ [][RegistryNext]_vars

\* the records of the registry at (file, line), line counted from 1
RecordsAt(registry, file, line) ==
    { i \in 1..Len(registry) :
         registry[i].file = fsPath(file) /\ registry[i].line + 1 = line }

OneRecordPerLocation(registry) ==
    \A i, j \in 1..Len(registry) :
       (registry[i].file = registry[j].file /\ registry[i].line = registry[j].line)
          => i = j

SetRequest(r, m) ==
    /\ m.action = "set"
    /\ \E c \in Clients : handle_command(r, c, m)
    /\ breakpoints' # breakpoints

\* C20: the registry never holds two records for one (file, line), and
\* after a set request each of its lines has exactly one record, which
\* carries the condition fields of that request.
C20_SetReplacesPerLocation ==
    [][/\ OneRecordPerLocation(breakpoints')
       /\ \A r \in Reqs, m \in RegistryMessages :
             SetRequest(r, m) =>
                \A k \in 1..Len(m.lines) :
                   \E i \in 1..Len(breakpoints') :
                      /\ RecordsAt(breakpoints', m.file, m.lines[k]) = { i }
                      /\ breakpoints'[i] =
                            SourceBreakpoint(m.file, m.lines[k],
                                             parse_condition(m.condition))
      ]_vars

\* ---- C21: set, list and clear
\* the step runs the breakpoints request m
BreakpointsRequest(m) == \E r \in Reqs, c \in Clients : handle_command(r, c, m)

Listed(list, file, line) ==
    \E i \in 1..Len(list) : list[i].file = file /\ list[i].line = line

\* the record is one that clear(file, lines) is to remove
Cleared(record, file, lines) ==
    /\ record.file = fsPath(file)
    /\ lines = AbsentLines \/ \E k \in 1..Len(lines) : lines[k] = record.line + 1

RECURSIVE Surviving(_, _, _)
Surviving(registry, file, lines) ==
    IF registry = <<>> THEN <<>>
    ELSE (IF Cleared(Head(registry), file, lines) THEN <<>> ELSE << Head(registry) >>)
            \o Surviving(Tail(registry), file, lines)

ClearIsExact ==
    \A m \in RegistryMessages :
       (m.action = "clear" /\ BreakpointsRequest(m)) =>
          breakpoints' = Surviving(breakpoints, m.file, m.lines)

\* C21 as stated: after set(f, [n]) the list holds a record with file f and
\* line n, and clear removes exactly the listed records of f.
C21_SetListsTheGivenFile ==
    [][/\ \A m \in RegistryMessages :
             (m.action = "set" /\ BreakpointsRequest(m)) =>
                \A k \in 1..Len(m.lines) : Listed(get_breakpoints', m.file, m.lines[k])
       /\ ClearIsExact
      ]_vars

\* C21, amended: after set(f, [n]) the list holds a record with line n whose
\* file is f as the host normalises it (made absolute); clear(f, lines)
\* removes exactly the records of the normalised f at the listed lines,
\* clear(f) every record of it, and leaves all other records as they were.
C21_SetListsTheNormalisedFile ==
    [][/\ \A m \in RegistryMessages :
             (m.action = "set" /\ BreakpointsRequest(m)) =>
                \A k \in 1..Len(m.lines) :
                   Listed(get_breakpoints', fsPath(m.file), m.lines[k])
       /\ ClearIsExact
      ]_vars

\* a list request was answered with a.c:10 under its absolute name while
\* a record of another file is registered
C21_Witness ==
    /\ Len(outbox) = 1
    /\ IsResponse(outbox[1])
    /\ outbox[1].success
    /\ outbox[1].data.kind = "breakpoints"
    /\ Listed(outbox[1].data.breakpoints, <<"/">> \o A_C, 10)
    /\ \E i \in 1..Len(breakpoints) : breakpoints[i].file = ABS_B_C

\* ---- C22: the classification of condition texts
\* condition texts of set requests: none, expressions, hit counts with and
\* without leading blanks, log messages, one brace only, braces after a
\* comparator
Conditions ==
    { <<>>, X_GT_1, GT_5, <<" ", ">", "5">>, <<"%", "2">>, <<"=", "=", "3">>,
      <<"{", "i", "}">>, <<"{", "i">>, <<">", "{", "}">>, <<" ">> }

ConditionMessages ==
    { [BreakpointsMessage(id, "set", A_C, <<10>>) EXCEPT !.condition = condition] :
         id \in Ids, condition \in Conditions }
    \cup { BreakpointsMessage(id, "clear", A_C, AbsentLines) : id \in Ids }

ConditionNext ==
    \/ \E r \in Reqs, c \in Clients, m \in ConditionMessages : handle_command(r, c, m)
    \/ \E r \in Reqs, ok \in BOOLEAN : setBreakpoints_answer(r, ok)

ConditionSpec == CommandStart /\ [][ConditionNext]_vars

Contains(text, ch) == \E i \in 1..Len(text) : text[i] = ch

BeginsWith(text, prefix) ==
    Len(prefix) <= Len(text) /\ SubSeq(text, 1, Len(prefix)) = prefix

BeginsWithComparator(text) == \E prefix \in HitConditionPrefixes : BeginsWith(text, prefix)

\* the text begins with a comparator once its leading blanks are skipped
BeginsWithComparatorAfterBlanks(text) ==
    \E n \in 0..Len(text) :
       /\ \A i \in 1..n : text[i] = " "
       /\ BeginsWithComparator(SubSeq(text, n + 1, Len(text)))

\* the record a set request created carries text as kind, and nothing else
Carries(record, kind, text) ==
    /\ record.logMessage = (IF kind = "log" THEN text ELSE Undefined)
    /\ record.hitCondition = (IF kind = "hit" THEN text ELSE Undefined)
    /\ record.condition = (IF kind = "expression" THEN text ELSE Undefined)

Created == breakpoints'[Len(breakpoints')]

SetsCondition(m) ==
    /\ m.action = "set"
    /\ \E r \in Reqs, c \in Clients : handle_command(r, c, m)

ControlFails(r) ==
    /\ req[r].pc \in { "threads", "resume" }
    /\ Finishes(r)
    /\ Len(outbox') = 1
    /\ ~outbox'[1].success

ControlFailsAtOnce(r) ==
    /\ req[r].pc = "idle"
    /\ req'[r].pc = "idle"
    /\ \E c \in Clients, m \in CommandMessages :
          m.command = "control" /\ m.id # NoId /\ handle_command(r, c, m)

\* C23: a control command that ends in an error response has not changed
\* execution_state, stop_reason, stop_location or stopped_at_breakpoint and
\* has broadcast no dap:continued; the caller gets success = false with the
\* error message.
C23_FailedControlChangesNothing ==
    [][\A r \in Reqs :
          /\ ControlFailsAtOnce(r) =>
                /\ CommittedStop(debug_state') = CommittedStop(debug_state)
                /\ ~Broadcast(outbox', "dap:continued")
                /\ Len(outbox') = 1 /\ ~outbox'[1].success /\ outbox'[1].error # Null
          /\ ControlFails(r) =>
                /\ outbox'[1].error # Null
                /\ CommittedStop(debug_state') = CommittedStop(debug_state)
                /\ req[r].pc = "resume" =>
                      ~req[r].locals.continued /\ ~req[r].locals.changed
      ]_vars

\* ---- C24: the close event of a socket the client has replaced
\* socket s had opened and is not the connection the client now uses: the
\* client has called disconnect() and connected again
Replaced(s) == connectPromise[s] = "resolved" /\ ws # NoSocket /\ s # ws

\* C24: the close event of an old socket, arriving after disconnect() and
\* a new connect(), does not mark the client as disconnected and rejects
\* no command while the new connection is open.
C24_LateCloseSparesNewConnection ==
    [][\A s \in Sockets :
          (ws_onclose(s) /\ Replaced(s) /\ connected) =>
             /\ connected'
             /\ pending_commands' = pending_commands
      ]_vars

\* ---- C25: path matching in check_if_stopped_at_breakpoint
XA_C == <<"x", "a", ".", "c">>
D_A_C == <<"d", "\\", "a", ".", "c">>
ABS_D_A_C == <<"/", "d", "/", "a", ".", "c">>

MatchFiles == { A_C, XA_C, D_A_C }

\* frames with a path, with a name only, in a directory, at another line
MatchFrames ==
    { [path |-> A_C, name |-> A_C, line |-> 10],
      [path |-> NoFile, name |-> A_C, line |-> 10],
      [path |-> ABS_D_A_C, name |-> A_C, line |-> 10],
      [path |-> XA_C, name |-> XA_C, line |-> 11] }

MatchMessages ==
    { BreakpointsMessage(id, "set", file, lines) :
         id \in Ids, file \in MatchFiles, lines \in { <<10>>, <<11>> } }
    \cup { BreakpointsMessage(id, "clear", file, AbsentLines) : id \in Ids, file \in MatchFiles }
    \cup StatusMessages

MatchNext ==
    \/ \E f \in MatchFrames, reason \in HostReasons : host_stop(f, reason)
    \/ host_resume
    \/ \E r \in Reqs, c \in Clients, m \in MatchMessages : handle_command(r, c, m)
    \/ \E r \in Reqs, answer \in { "fail", "empty", "frames" } : call_stack_answer(r, answer)
    \/ \E r \in Reqs, ok \in BOOLEAN : setBreakpoints_answer(r, ok)

MatchSpec == CommandStart /\ [][MatchNext]_vars

\* q is p or a suffix of p that begins at a path-segment boundary
PathSuffix(p, q) ==
    \/ p = q
    \/ /\ 0 < Len(q) /\ Len(q) < Len(p)
       /\ SubSeq(p, Len(p) - Len(q) + 1, Len(p)) = q
       /\ q[1] = "/" \/ p[Len(p) - Len(q)] = "/"

Slashed(path) == [i \in 1..Len(path) |-> IF path[i] = "\\" THEN "/" ELSE path[i]]

SegmentMatch(a, b) ==
    PathSuffix(Slashed(a), Slashed(b)) \/ PathSuffix(Slashed(b), Slashed(a))

\* C25: the stop at the top frame is reported as a breakpoint stop iff some
\* registered record has the frame's line and a path that equals the
\* frame's path or is a path-suffix of it, or the other way round, after
\* backslashes are replaced by slashes.
C25_MatchIsPathSuffix ==
    [][\A r \in Reqs :
          (call_stack_answer(r, "frames") /\ TopFrame(host.frame).source # NoFile) =>
             LET top == TopFrame(host.frame)
             IN  outbox'[1].data.stopped_at_breakpoint =
                    \E i \in 1..Len(breakpoints) :
                       /\ SegmentMatch(breakpoints[i].file, top.source)
                       /\ breakpoints[i].line + 1 = top.line
      ]_vars

\* ---- C26: the events of a breakpoint stop
\* the registry records at the location, matched as paths
RecordsMatching(file, line) ==
    { k \in 1..Len(breakpoints) :
         /\ file # NoFile /\ line # NoLine
         /\ SegmentMatch(breakpoints[k].file, file)
         /\ breakpoints[k].line + 1 = line }

CarriesRecord(event, k) ==
    /\ event.data.condition = get_breakpoints[k].condition
    /\ event.data.hitCondition = get_breakpoints[k].hitCondition
    /\ event.data.logMessage = get_breakpoints[k].logMessage

DefaultStop == <<"unknown", Null, NoLocation, FALSE>>

\* C27: whenever the bridge follows no session, execution_state is
\* 'unknown', stop_reason and stop_location are null and
\* stopped_at_breakpoint is false.
C27_NoSessionMeansDefaultState ==
    current_session = NoSession => CommittedStop(debug_state) = DefaultStop

\* ---- C28: which commands write the execution state
\* the commands that may write it: status, and the resuming control actions
WritesState(m) ==
    \/ m.command = "status"
    \/ m.command = "control" /\ m.action \in ResumeActions

\* request r is at an await of a command that may not write it
AwaitsWithoutWriting(r) ==
    \/ req[r].pc \in { "query", "setBreakpoints", "setDataBreakpoints" }
    \/ req[r].pc \in { "threads", "resume" } /\ req[r].action = "pause"

\* the step is a status query committing a breakpoint stop it detected
StatusDetects(r) ==
    /\ req[r].pc = "call_stack"
    /\ Finishes(r)
    /\ debug_state'.stopped_at_breakpoint
    /\ debug_state'.stop_reason = "breakpoint"
    /\ debug_state'.execution_state = "stopped"

\* the step is a continue or step command about to send its resume request
ResumeCommits(r) ==
    /\ req[r].pc # "resume"
    /\ req'[r].pc = "resume"
    /\ req'[r].action \in ResumeActions

\* C28: variables, evaluate, callstack, threads, registers, disassemble,
\* memory, breakpoints, profiles, pause and unknown commands leave
\* execution_state, stop_reason, stop_location and stopped_at_breakpoint as
\* they are, at every step of their handling; among commands only
\* continue/step and a status query that detects a breakpoint stop change
\* them.
C28_OnlyStateCommandsWrite ==
    [][/\ \A r \in Reqs, c \in Clients, m \in CommandMessages :
             (handle_command(r, c, m) /\ ~WritesState(m)) =>
                CommittedStop(debug_state') = CommittedStop(debug_state)
       /\ \A r \in Reqs :
             (AwaitsWithoutWriting(r) /\ req'[r] # req[r]) =>
                CommittedStop(debug_state') = CommittedStop(debug_state)
       /\ CommittedStop(debug_state') # CommittedStop(debug_state) =>
             \E r \in Reqs : StatusDetects(r) \/ ResumeCommits(r)
      ]_vars

\* a query was answered while the committed state says 'stopped' at a
\* breakpoint
C28_Witness ==
    /\ debug_state.execution_state = "stopped"
    /\ debug_state.stopped_at_breakpoint
    /\ Len(outbox) = 1
    /\ IsResponse(outbox[1])
    /\ outbox[1].success
    /\ outbox[1].data.kind = "result"

\* ---- C29: frames the bridge cannot dispatch
\* the step answers client with one error response carrying id and leaves
\* the connection, the requests, the debug state and the registry alone
RejectedToSender(client, id) ==
    /\ Len(outbox') = 1
    /\ IsResponse(outbox'[1])
    /\ outbox'[1].to = { client }
    /\ outbox'[1].id = id
    /\ ~outbox'[1].success
    /\ outbox'[1].error # Null
    /\ client \in clients'
    /\ UNCHANGED <<clients, client_state, req, debug_state, breakpoints>>

\* C29: a frame that is not JSON, or has no id, gets an error response
\* with id null; a frame with an id and no command gets an error response
\* with that id; the connection stays in the set of clients, no command
\* runs, the debug state and the registry are unchanged.
C29_ProtocolErrorsRejectedToSender ==
    [][/\ \A c \in Clients : ws_on_message_invalid(c) => RejectedToSender(c, NoId)
       /\ \A r \in Reqs, c \in Clients, m \in CommandMessages :
             handle_command(r, c, m) =>
                /\ m.id = NoId => RejectedToSender(c, NoId)
                /\ (m.id # NoId /\ m.command = "") => RejectedToSender(c, m.id)
      ]_vars

\* a frame that is not JSON has been rejected while a request awaits the
\* debug host
C29_Witness ==
    /\ Len(outbox) = 1
    /\ IsResponse(outbox[1])
    /\ outbox[1].id = NoId
    /\ outbox[1].error = "Invalid message format"
    /\ outbox[1].to \subseteq clients
    /\ \E r \in Reqs : req[r].pc # "idle"

\* ---- C30: subscriptions and the transport
\* subscriptions, events and a connection that closes, fails, is dropped and
\* made again
ReconnectNext ==
    \/ \E e \in EventNames, cb \in UserCallbacks : client_on(e, cb)
    \/ \E n \in Namespaces, cb \in UserCallbacks : client_on_namespace(n, cb)
    \/ \E s \in Sockets, m \in EventFrames : ws_onmessage(s, m)
    \/ \E s \in Sockets : ws_onerror(s)
    \/ \E s \in Sockets : ws_onclose(s)
    \/ \E s \in Sockets : ws_onopen(s)
    \/ disconnect
    \/ client_connect

ReconnectSpec == ConnectedInit /\ [][ReconnectNext]_vars

TransportStep ==
    \/ \E s \in Sockets : ws_onerror(s) \/ ws_onclose(s) \/ ws_onopen(s)
    \/ disconnect
    \/ client_connect

\* socket s delivers frames
Delivers(s) == readyState[s] \in {"OPEN", "CLOSING"} /\ ~errorQueued[s]

\* an event frame arriving on a later connection invokes every subscriber
\* registered so far
LaterConnectionsDispatch ==
    \A s \in Sockets \ { 1 }, m \in EventFrames :
       Delivers(s) =>
          Invocations(m.event, m.data) = ExpectedInvocations(m.event, m.data)

\* C30: a close or an error of the transport, a disconnect() and a new
\* connect() leave the exact-name and the namespace registry as they are,
\* and an event frame received on a connection made after a disconnect
\* invokes the subscribers registered before it.
C30_SubscriptionsSurviveTransport ==
    /\ []LaterConnectionsDispatch
    /\ [][TransportStep => UNCHANGED <<event_listeners, ns_event_listeners>>]_vars

\* the first connection has closed, a second one is open, and the
\* subscriptions made on the first are still registered
C30_Witness ==
    /\ readyState[1] = "CLOSED"
    /\ ws = 2
    /\ readyState[2] = "OPEN"
    /\ connected
    /\ <<"dap", "stopped">> \in DOMAIN event_listeners
    /\ event_listeners[<<"dap", "stopped">>] # <<>>
    /\ "dap" \in DOMAIN ns_event_listeners
    /\ ns_event_listeners["dap"] # <<>>

\* ---- C31: correlation ids
\* the calls that have been given an id
Sent == {c \in Calls : call[c].id # 0}

\* call c is given its id in this step
TakesId(c) == call[c].id = 0 /\ call'[c].id # 0

PairwiseDistinctIds == \A c, d \in Sent : c # d => call[c].id # call[d].id

\* C31: the ids one client generates are pairwise distinct: every
\* send_command that reaches the executor increases the counter, its id is
\* the new counter value, no other call, in flight or settled, has that id,
\* and the pending map has no entry under it that the send would overwrite.
C31_IdsPairwiseDistinct ==
    /\ []PairwiseDistinctIds
    /\ [][\A c \in Calls :
             TakesId(c) =>
                /\ command_id_counter' > command_id_counter
                /\ call'[c].id = command_id_counter'
                /\ call'[c].id \notin DOMAIN pending_commands
                /\ \A id \in DOMAIN pending_commands :
                      id \in DOMAIN pending_commands' =>
                         pending_commands'[id] = pending_commands[id]]_vars

\* two commands are in flight at once under different ids
C31_Witness ==
    /\ Cardinality(DOMAIN pending_commands) = 2
    /\ \A c \in Calls : call[c].pc = "pending"
    /\ call[1].id # call[2].id

\* ---- C32: bare and namespaced event names
\* 'stopped', 'dap:stopped' and 'dap:stopped:entry'
DAP_STOPPED_ENTRY == <<"dap", "stopped", "entry">>
NamedEvents == EventNames \cup { DAP_STOPPED_ENTRY }
NamedFrames == [type : {"event"}, event : NamedEvents, data : EventData]

NamesNext ==
    \/ \E e \in NamedEvents, cb \in UserCallbacks : client_on(e, cb)
    \/ \E e \in NamedEvents, cb \in UserCallbacks : client_off(e, cb)
    \/ \E n \in Namespaces, cb \in UserCallbacks : client_on_namespace(n, cb)
    \/ \E n \in Namespaces, cb \in UserCallbacks : client_off_namespace(n, cb)
    \/ \E s \in Sockets, m \in NamedFrames : ws_onmessage(s, m)
    \/ \E s \in Sockets : ws_onclose(s)
    \/ \E s \in Sockets : ws_onopen(s)
    \/ client_connect

NamesSpec == ConnectedInit /\ [][NamesNext]_vars

\* a name without a separator
IsBare(event) == Len(event) = 1

\* the invocations of exact-name subscribers are logged with name ""
ExactInvocations(event, data) ==
    LET exact == ListenersOf(event_listeners, event)
    IN  [i \in 1..Len(exact) |-> [cb |-> exact[i], name |-> "", data |-> data]]

\* the segments of the local name a namespace subscriber was called with
LocalSegments(inv) == IF inv.name = "undefined" THEN <<>> ELSE <<inv.name>>

\* C32: a bare event name reaches its exact-name subscribers only, no
\* namespace subscriber being invoked for it; an event ns:local invokes,
\* after its exact-name subscribers, every subscriber of namespace ns with
\* the local name being all of the name after its first separator.
C32_BareAndNamespacedDelivery ==
    \A m \in NamedFrames :
        LET log == Invocations(m.event, m.data)
            exact == ExactInvocations(m.event, m.data)
            byNs == ListenersOf(ns_event_listeners, m.event[1])
        IN  IF IsBare(m.event)
            THEN log = exact
            ELSE /\ Len(log) = Len(exact) + Len(byNs)
                 /\ SubSeq(log, 1, Len(exact)) = exact
                 /\ \A i \in 1..Len(byNs) :
                       /\ log[Len(exact) + i].cb = byNs[i]
                       /\ log[Len(exact) + i].data = m.data
                       /\ LocalSegments(log[Len(exact) + i]) = Tail(m.event)

\* ---- C33: listeners that remove themselves during a dispatch
\* callback cb is invoked somewhere in the log of an emission
Invoked(log, cb) == \E k \in 1..Len(log) : log[k].cb = cb

\* every wait_for_event call so far listed each name once, so that a wait
\* handler removes handlers of its own call only, one per name
DistinctNames(w) ==
    \A i, j \in 1..Len(wait[w].events) :
        i # j => wait[w].events[i] # wait[w].events[j]

\* C33: an emission invokes every listener registered for the event when it
\* starts, also when an earlier listener of the event removes itself during
\* the dispatch; so every wait_for_event call pending on the event's name
\* is resolved by that one emission.
C33_EveryRegisteredListenerInvoked ==
    \A m \in EventFrames :
        LET r == emit_result(Dispatcher, m.event, m.data)
            registered == ListenersOf(event_listeners, m.event)
        IN  (\A w \in Waits : DistinctNames(w)) =>
               /\ \A i \in 1..Len(registered) : Invoked(r.log, registered[i])
               /\ \A w \in Waits :
                     (wait[w].pc = "pending" /\ m.event \in ListedNames(w)) =>
                         /\ r.wait[w].pc = "settled"
                         /\ r.wait[w].outcome.state = "resolved"

\* ---- C34: connect() during a connection attempt
\* call c awaited the promise connect() returned while another attempt was
\* in progress, and its continuation runs in this step
ResumesAfterJoining(c) ==
    /\ call[c].awaits = AlreadyResolved
    /\ send_command_resume(c)

\* C34: the promise of a connect() made during a connection attempt resolves
\* only once the connection is open: when the send_command that awaited it
\* continues, the client is connected and the request is transmitted and
\* pending, not rejected.
C34_JoinedConnectWaitsForOpen ==
    [][\A c \in Calls :
          ResumesAfterJoining(c) =>
             /\ connected
             /\ call'[c].pc = "pending"
             /\ call'[c].id \in DOMAIN pending_commands']_vars

\* ---- C35: stop fields of a state that is not 'stopped'
\* C35: in every committed debug state whose execution_state is not
\* 'stopped', stop_reason and stop_location are null and
\* stopped_at_breakpoint is false.
C35_NotStoppedMeansNoStopFields ==
    debug_state.execution_state # "stopped" => StopFieldsCleared(debug_state)

\* ---- C36: self-consistent status results
\* the status results among the frames of the last step
StatusResultsIn(box) ==
    { box[k].data : k \in { i \in 1..Len(box) :
                               IsResponse(box[i]) /\ box[i].data.kind = "status" } }

\* C36: in every status result stop_reason is 'breakpoint' exactly when
\* stopped_at_breakpoint is true, and stop_reason is null when
\* execution_state is 'running' or 'unknown'.
C36_StatusResultSelfConsistent ==
    \A result \in StatusResultsIn(outbox) :
        /\ (result.stop_reason = "breakpoint") = result.stopped_at_breakpoint
        /\ result.execution_state \in { "running", "unknown" } =>
              result.stop_reason = Null

\* ---- C37: no stop events after the session has terminated
StopEvents == { "dap:stopped", "dap:breakpoint", "dap:continued" }

\* the bridge follows no session before and after the step: the step lies
\* between a dap:session_terminated (or the start of the bridge, which
\* leaves the same state) and the next dap:session_started
BetweenSessions == current_session = NoSession /\ current_session' = NoSession

\* C37: from the broadcast of dap:session_terminated for the current
\* session until the next dap:session_started no dap:stopped,
\* dap:breakpoint or dap:continued is broadcast, whatever notification or
\* answer of the debug host arrives in between.
C37_NoStopEventsAfterTermination ==
    [][BetweenSessions =>
          \A k \in 1..Len(outbox') :
             IsEvent(outbox'[k]) => outbox'[k].event \notin StopEvents]_vars

\* ---- C38: a status query racing a continue command
MaxRaceReqs == 2     \* handle_command invocations in flight: status and control
RaceReqs == 1..MaxRaceReqs

\* a bridge with a client that follows the active session 1, whose thread
\* runs: the state after handle_websocket_connection,
\* onDidStartDebugSession and onDidChangeActiveDebugSession followed by a
\* continue
RaceInit ==
    /\ sessions = {1}
    /\ activeDebugSession = 1
    /\ host = NoStop
    /\ current_session = 1
    /\ debug_state = [Running(InitialDebugState) EXCEPT !.is_running = TRUE]
    /\ breakpoints = <<>>
    /\ clients = {1}
    /\ client_state = [c \in Clients |-> IF c = 1 THEN "OPEN" ELSE "NONE"]
    /\ req = [r \in RaceReqs |-> IdleReq]
    /\ item = [i \in Items |-> IdleItem]
    /\ capability_check = [k \in Checks |-> IdleCheck]
    /\ outbox = <<>>

ContinueMessage(id) ==
    [Message(id, "control") EXCEPT !.action = "continue", !.threadId = 1]

RaceMessages ==
    { Message(1, "status"), ContinueMessage(2),
      BreakpointsMessage(1, "set", A_C, <<10>>) }

RaceNext ==
    \/ \E f \in StackFrames, reason \in HostReasons : host_stop(f, reason)
    \/ host_resume
    \/ \E i \in Items, stack_item \in StackItems : onDidChangeActiveStackItem(i, stack_item)
    \/ \E i \in Items, answer \in { "fail", "empty", "frames" } : stackTrace_answer(i, answer)
    \/ \E r \in RaceReqs, c \in Clients, m \in RaceMessages : handle_command(r, c, m)
    \/ \E r \in RaceReqs, answer \in { "fail", "empty", "frames" } : call_stack_answer(r, answer)
    \/ \E r \in RaceReqs, ok \in BOOLEAN : resume_answer(r, ok)
    \/ \E r \in RaceReqs, ok \in BOOLEAN : setBreakpoints_answer(r, ok)

RaceStart == RaceInit /\ ClientInit

RaceSpec == RaceStart /\ [][RaceNext]_vars

\* a continue command has committed 'running' and awaits its resume request
ContinueTookEffect ==
    /\ debug_state.execution_state = "running"
    /\ \E q \in RaceReqs : req[q].pc = "resume" /\ req[q].action = "continue"

\* status query r read a committed 'stopped' when it started its call-stack
\* fetch, and completes in this step
StaleStatusCompletes(r) ==
    /\ req[r].pc = "call_stack"
    /\ req[r].locals.execution_state = "stopped"
    /\ \E answer \in { "fail", "empty", "frames" } : call_stack_answer(r, answer)

\* C38: a status query that started its call-stack fetch before a continue
\* command set the execution state to 'running' does not overwrite it: when
\* the query completes, no stop having been processed since the continue,
\* the committed execution_state is still 'running'.
C38_StaleStatusKeepsRunning ==
    [][\A r \in RaceReqs :
          (ContinueTookEffect /\ StaleStatusCompletes(r)) =>
              debug_state'.execution_state = "running"]_vars

\* ---- C39: the list sent to the debug adapter
\* a property an entry of the setBreakpoints request may leave out
Field(entry, name) == IF name \in DOMAIN entry THEN entry[name] ELSE Undefined

\* what the adapter holds for the source after the request: its entries
AdapterEntries(sent) ==
    { << sent[i].line, Field(sent[i], "condition"), Field(sent[i], "hitCondition"),
         Field(sent[i], "logMessage") >> : i \in 1..Len(sent) }

\* the registry's records for file, lines counted from 1
RegistryEntries(registry, file) ==
    { << registry[i].line + 1, registry[i].condition, registry[i].hitCondition,
         registry[i].logMessage >> :
         i \in { k \in 1..Len(registry) : registry[k].file = fsPath(file) } }

\* request r sends customRequest('setBreakpoints') in this step
SendsToAdapter(r) == req[r].pc = "idle" /\ req'[r].pc = "setBreakpoints"

\* C39: with an active session, the list a set or a clear on file f sends to
\* the debug adapter for f has the lines, conditions, hit conditions and log
\* messages of the registry's records for f after that set or clear.
C39_AdapterListEqualsRegistry ==
    [][\A r \in Reqs :
          SendsToAdapter(r) =>
             AdapterEntries(req'[r].locals.sent)
                = RegistryEntries(breakpoints', req'[r].locals.file)]_vars

\* ---- C40: stack-item notifications without a location
\* the step handles, to its end, a notification whose item has no thread or
\* frame id, or whose stackTrace request failed, returned no frame or
\* returned a frame without path and line
HandlesUnresolved(i) ==
    \/ /\ item[i].pc = "stackTrace"
       /\ \E answer \in StackTraceAnswers :
             /\ Location(item_location(answer)) = NoLocation
             /\ stackTrace_answer(i, answer)
    \/ /\ item[i].pc = "idle" /\ item'[i].pc = "idle"
       /\ \E stack_item \in StackItems \ { NoItem } :
             onDidChangeActiveStackItem(i, stack_item)

\* the thread id the handler read from the notification
ThreadOf(i) == IF item[i].pc = "stackTrace" THEN item[i].threadId ELSE 1

HandlesNullItem(i) == onDidChangeActiveStackItem(i, NoItem)

====
